---- MODULE Spec2Model ----
(***************************************************************************)
(* A model of the swarm-external-secrets driver: the synchronous fetch     *)
(* path (SecretsDriver.Get, trackSecret), the tracking registry            *)
(* (secretTracker), the provider adapters (path derivation, payload        *)
(* extraction, CheckSecretChanged) and the rotation engine                 *)
(* (checkForSecretChanges, rotateSecret, updateDockerSecret,               *)
(* updateServicesSecretReference).                                         *)
(*                                                                         *)
(* Strings are TLA+ strings; a byte string and its text are the same       *)
(* thing here.  The secret backend and the orchestrator (Docker Swarm) are *)
(* the environment: the backend is a map from locators to payloads, the    *)
(* orchestrator a list of secret objects and a list of services, and any   *)
(* call into either may fail.                                              *)
(***************************************************************************)
EXTENDS Integers, Sequences, FiniteSets, TLC

-----------------------------------------------------------------------------
(* Bounds of the model.                                                    *)

\* Get calls and rewrites of the backend content in a run
MaxEvents == 3
\* Get calls that have fetched and not yet upserted
MaxInFlight == 1
\* rotation ticks in a run
MaxTicks == 2
\* Get calls in a run of sequential Gets
MaxGets == 2

-----------------------------------------------------------------------------
(* Strings.                                                                *)

LowerLetters == {"a","b","c","d","e","f","g","h","i","j","k","l","m",
                 "n","o","p","q","r","s","t","u","v","w","x","y","z"}
UpperLetters == {"A","B","C","D","E","F","G","H","I","J","K","L","M",
                 "N","O","P","Q","R","S","T","U","V","W","X","Y","Z"}
Letters == LowerLetters \cup UpperLetters
Digits == {"0","1","2","3","4","5","6","7","8","9"}

CharAt(s, i) == SubSeq(s, i, i)

HasPrefix(s, p) == Len(s) >= Len(p) /\ SubSeq(s, 1, Len(p)) = p

HasSuffix(s, p) == Len(s) >= Len(p) /\ SubSeq(s, Len(s) - Len(p) + 1, Len(s)) = p

\* strings.TrimPrefix
TrimPrefix(s, p) == IF HasPrefix(s, p) THEN SubSeq(s, Len(p) + 1, Len(s)) ELSE s

\* strings.Contains
Contains(s, sub) ==
    \E i \in 1..(Len(s) - Len(sub) + 1) : SubSeq(s, i, i + Len(sub) - 1) = sub

\* strings.ToLower on the letters
LowerOf(c) ==
    CASE c = "A" -> "a" [] c = "B" -> "b" [] c = "C" -> "c" [] c = "D" -> "d"
      [] c = "E" -> "e" [] c = "F" -> "f" [] c = "G" -> "g" [] c = "H" -> "h"
      [] c = "I" -> "i" [] c = "J" -> "j" [] c = "K" -> "k" [] c = "L" -> "l"
      [] c = "M" -> "m" [] c = "N" -> "n" [] c = "O" -> "o" [] c = "P" -> "p"
      [] c = "Q" -> "q" [] c = "R" -> "r" [] c = "S" -> "s" [] c = "T" -> "t"
      [] c = "U" -> "u" [] c = "V" -> "v" [] c = "W" -> "w" [] c = "X" -> "x"
      [] c = "Y" -> "y" [] c = "Z" -> "z" [] OTHER -> c

RECURSIVE ToLower(_)
ToLower(s) == IF s = "" THEN "" ELSE LowerOf(CharAt(s, 1)) \o ToLower(Tail(s))

\* one pass of strings.ReplaceAll(s, "--", "-"): non-overlapping, left to right
RECURSIVE ReplaceAllDoubleHyphen(_)
ReplaceAllDoubleHyphen(s) ==
    IF Len(s) < 2 THEN s
    ELSE IF SubSeq(s, 1, 2) = "--"
         THEN "-" \o ReplaceAllDoubleHyphen(SubSeq(s, 3, Len(s)))
         ELSE CharAt(s, 1) \o ReplaceAllDoubleHyphen(Tail(s))

\* for strings.Contains(result, "--") { result = strings.ReplaceAll(result, "--", "-") }
RECURSIVE CollapseHyphens(_)
CollapseHyphens(s) ==
    IF Contains(s, "--") THEN CollapseHyphens(ReplaceAllDoubleHyphen(s)) ELSE s

\* strings.Trim(s, "-")
RECURSIVE TrimHyphens(_)
TrimHyphens(s) ==
    IF s = "" THEN s
    ELSE IF CharAt(s, 1) = "-" THEN TrimHyphens(Tail(s))
    ELSE IF CharAt(s, Len(s)) = "-" THEN TrimHyphens(SubSeq(s, 1, Len(s) - 1))
    ELSE s

\* the elements of a sequence
Range(f) == { f[i] : i \in DOMAIN f }

-----------------------------------------------------------------------------
(* Hashing.  SHA-256 is collision free on the values of the model: the     *)
(* digest of a value is a tagged copy of it, and both hex encodings of the *)
(* source (fmt.Sprintf("%x", ..) and hex.EncodeToString) give the same     *)
(* lower-case text.                                                        *)

Sha256Hex(value) == "sha256(" \o value \o ")"

\* computeHash of the GCP adapter
computeHash(data) == Sha256Hex(data)

-----------------------------------------------------------------------------
(* Requests (secrets.Request) and results.                                 *)

\* a label map is a function from the label keys that are present
NoLabels == [k \in {} |-> ""]

Label(k, v) == [x \in {k} |-> v]

HasLabel(req, k) == k \in DOMAIN req.SecretLabels

Request(name, service, labels) ==
    [SecretName |-> name, ServiceName |-> service, SecretLabels |-> labels]

\* the result of a call that returns (value, error), or that panics
Ok(v) == [kind |-> "ok", value |-> v, msg |-> ""]
Err(m) == [kind |-> "err", value |-> "", msg |-> m]
Panic(m) == [kind |-> "panic", value |-> "", msg |-> m]
\* log.Fatal inside the call: the process exits
Fatal(m) == [kind |-> "fatal", value |-> "", msg |-> m]

-----------------------------------------------------------------------------
(* Backend payloads.  A JSON value carries its Go type and its "%v" text;  *)
(* a payload carries its text and what json.Unmarshal into                 *)
(* map[string]interface{} makes of it (for the KV backends, api.Secret's   *)
(* Data map).                                                              *)

StrV(s) == [t |-> "string", v |-> s, o |-> <<>>]
NumV(s) == [t |-> "number", v |-> s, o |-> <<>>]
ObjV(text, fields) == [t |-> "object", v |-> text, o |-> fields]
NullV == [t |-> "null", v |-> "<nil>", o |-> <<>>]

\* fmt.Sprintf("%v", value)
FmtV(value) == value.v

RawPayload(text) == [text |-> text, isJSON |-> FALSE, obj |-> <<>>]
JSONPayload(text, fields) == [text |-> text, isJSON |-> TRUE, obj |-> fields]

defaultFields == <<"value", "password", "secret", "data">>

\* for _, field := range defaultFields { if value, ok := data[field]; ok { return ... } }
RECURSIVE FirstDefaultField(_, _)
FirstDefaultField(data, i) ==
    IF i > Len(defaultFields) THEN ""
    ELSE IF defaultFields[i] \in DOMAIN data THEN defaultFields[i]
    ELSE FirstDefaultField(data, i + 1)

\* for _, value := range data { if strValue, ok := value.(string); ok { return ... } }
\* Go's map iteration order is unspecified: any string-typed value may come first.
StringValues(data) == { data[k].v : k \in { x \in DOMAIN data : data[x].t = "string" } }

\* the extraction shared by the adapters once the payload is a map and no
\* field label is given
ExtractDefault(data, noneMsg) ==
    IF FirstDefaultField(data, 1) # ""
    THEN { Ok(FmtV(data[FirstDefaultField(data, 1)])) }
    ELSE IF StringValues(data) # {}
         THEN { Ok(v) : v \in StringValues(data) }
         ELSE { Err(noneMsg) }

-----------------------------------------------------------------------------
(* KV-hierarchy adapters: Vault and OpenBao.                               *)

\* if secretData, ok := secret.Data["data"]; ok { data = secretData.(map[string]interface{}) }
\* the unchecked type assertion panics when the "data" entry is not a map
KVUnwrap(Data) ==
    IF "data" \in DOMAIN Data
    THEN IF Data["data"].t = "object"
         THEN [panic |-> FALSE, data |-> Data["data"].o]
         ELSE [panic |-> TRUE, data |-> <<>>]
    ELSE [panic |-> FALSE, data |-> Data]

KVExtractSecretValue(Data, req, fieldKey) ==
    LET u == KVUnwrap(Data) IN
    IF u.panic THEN { Panic("interface conversion") }
    ELSE IF HasLabel(req, fieldKey)
         THEN IF req.SecretLabels[fieldKey] \in DOMAIN u.data
              THEN { Ok(FmtV(u.data[req.SecretLabels[fieldKey]])) }
              ELSE { Err("field " \o req.SecretLabels[fieldKey] \o " not found in secret") }
         ELSE ExtractDefault(u.data, "no suitable secret value found")

Vault_extractSecretValue(Data, req) == KVExtractSecretValue(Data, req, "vault_field")

OpenBao_extractSecretValue(Data, req) == KVExtractSecretValue(Data, req, "openbao_field")

KVBuildSecretPath(MountPath, req, pathKey) ==
    IF HasLabel(req, pathKey)
    THEN IF MountPath = "secret"
         THEN MountPath \o "/data/" \o req.SecretLabels[pathKey]
         ELSE MountPath \o "/" \o req.SecretLabels[pathKey]
    ELSE IF MountPath = "secret"
         THEN IF req.ServiceName # ""
              THEN MountPath \o "/data/" \o req.ServiceName \o "/" \o req.SecretName
              ELSE MountPath \o "/data/" \o req.SecretName
         ELSE IF req.ServiceName # ""
              THEN MountPath \o "/" \o req.ServiceName \o "/" \o req.SecretName
              ELSE MountPath \o "/" \o req.SecretName

Vault_buildSecretPath(MountPath, req) == KVBuildSecretPath(MountPath, req, "vault_path")

OpenBao_buildSecretPath(MountPath, req) == KVBuildSecretPath(MountPath, req, "openbao_path")

\* the current value that CheckSecretChanged of the KV adapters hashes
KVCheckValue(Data, secretInfo) ==
    LET u == KVUnwrap(Data) IN
    IF u.panic THEN Panic("interface conversion")
    ELSE IF secretInfo.SecretField \in DOMAIN u.data
         THEN Ok(FmtV(u.data[secretInfo.SecretField]))
         ELSE Err("field " \o secretInfo.SecretField \o " not found in secret")

-----------------------------------------------------------------------------
(* Cloud adapters: AWS Secrets Manager, Azure Key Vault, GCP Secret        *)
(* Manager.                                                                *)

AWS_buildSecretName(req) ==
    IF HasLabel(req, "aws_secret_name") THEN req.SecretLabels["aws_secret_name"]
    ELSE IF req.ServiceName # "" THEN req.ServiceName \o "/" \o req.SecretName
    ELSE req.SecretName

AWS_extractSecretValueByField(payload, field) ==
    IF payload.isJSON
    THEN IF field \in DOMAIN payload.obj
         THEN { Ok(FmtV(payload.obj[field])) }
         ELSE { Err("field " \o field \o " not found in secret; available fields") }
    ELSE IF field # "value"
         THEN { Err("field " \o field \o " not found in non-JSON secret") }
         ELSE { Ok(payload.text) }

AWS_extractSecretValue(payload, req) ==
    IF HasLabel(req, "aws_field")
    THEN AWS_extractSecretValueByField(payload, req.SecretLabels["aws_field"])
    ELSE IF payload.isJSON
         THEN ExtractDefault(payload.obj, "no suitable secret value found in JSON")
         ELSE { Ok(payload.text) }

\* the rune loop of AzureProvider.buildSecretName
RECURSIVE AzureSanitizeRunes(_)
AzureSanitizeRunes(s) ==
    IF s = "" THEN ""
    ELSE (IF CharAt(s, 1) \in Letters \cup Digits \cup {"-"} THEN CharAt(s, 1) ELSE "-")
         \o AzureSanitizeRunes(Tail(s))

Azure_buildSecretName(req) ==
    IF HasLabel(req, "azure_secret_name") THEN req.SecretLabels["azure_secret_name"]
    ELSE LET secretName == IF req.ServiceName # ""
                           THEN req.ServiceName \o "-" \o req.SecretName
                           ELSE req.SecretName
             result == TrimHyphens(CollapseHyphens(AzureSanitizeRunes(secretName)))
         IN IF result = "" THEN "default-secret" ELSE result

Azure_extractSecretValueByField(payload, field) ==
    IF ~payload.isJSON
    THEN { Err("cannot extract field '" \o field \o "' because the secret is not a valid JSON object") }
    ELSE IF field \in DOMAIN payload.obj
         THEN { Ok(FmtV(payload.obj[field])) }
         ELSE { Err("field '" \o field \o "' not found in the JSON secret") }

Azure_extractSecretValue(payload, req) ==
    IF HasLabel(req, "azure_field")
    THEN Azure_extractSecretValueByField(payload, req.SecretLabels["azure_field"])
    ELSE IF payload.isJSON
         THEN ExtractDefault(payload.obj, "secret is a JSON object but no suitable value could be extracted")
         ELSE { Ok(payload.text) }

\* the configuration: the keys the environment of the process sets to a
\* non-empty value (NewDriver's settings, from os.Environ)
VARIABLE settings

\* The repository holds two versions of the GCP adapter.  GCPVersioned is
\* the one with buildSecretVersionName (it hashes the raw payload in
\* CheckSecretChanged), GCPNamed the one with buildSecretName.
\* g.config.ProjectID is getConfigOrDefault(config, "GCP_PROJECT_ID", "")
GCP_ProjectID == IF "GCP_PROJECT_ID" \in settings THEN "proj" ELSE ""

GCP_buildSecretName(req) ==
    IF HasLabel(req, "gcp_secret_name") THEN req.SecretLabels["gcp_secret_name"]
    ELSE "projects/" \o GCP_ProjectID \o "/secrets/" \o
         (IF req.ServiceName # "" THEN req.ServiceName \o "-" \o req.SecretName
          ELSE req.SecretName)

GCP_buildSecretVersionName(req) ==
    IF HasLabel(req, "gcp_secret_name")
    THEN IF Contains(req.SecretLabels["gcp_secret_name"], "/versions/")
         THEN req.SecretLabels["gcp_secret_name"]
         ELSE req.SecretLabels["gcp_secret_name"] \o "/versions/latest"
    ELSE "projects/" \o GCP_ProjectID \o "/secrets/" \o
         (IF req.ServiceName # "" THEN req.ServiceName \o "-" \o req.SecretName
          ELSE req.SecretName) \o "/versions/latest"

GCP_extractSecretValueByField(payload, field) == AWS_extractSecretValueByField(payload, field)

\* GCPNamed: default fields, then the first string value, then an error
GCPNamed_extractSecretValue(payload, req) ==
    IF HasLabel(req, "gcp_field")
    THEN GCP_extractSecretValueByField(payload, req.SecretLabels["gcp_field"])
    ELSE IF payload.isJSON
         THEN ExtractDefault(payload.obj, "no suitable secret value found in JSON")
         ELSE { Ok(payload.text) }

\* GCPVersioned: default fields, then the payload verbatim
GCPVersioned_extractSecretValue(payload, req) ==
    IF HasLabel(req, "gcp_field")
    THEN GCP_extractSecretValueByField(payload, req.SecretLabels["gcp_field"])
    ELSE IF payload.isJSON /\ FirstDefaultField(payload.obj, 1) # ""
         THEN { Ok(FmtV(payload.obj[FirstDefaultField(payload.obj, 1)])) }
         ELSE { Ok(payload.text) }


-----------------------------------------------------------------------------
(* The provider contract, dispatched on the adapter.                       *)

Adapters == {"vault", "openbao", "aws", "azure", "gcp-named", "gcp-versioned"}

GetProviderName(a) == IF a \in {"gcp-named", "gcp-versioned"} THEN "gcp" ELSE a

\* every adapter of the repository returns true
SupportsRotation(a) == a \in Adapters

\* the error of a provider call, wrapped as the callers wrap it
Wrap(prefix, outcomes) ==
    { IF r.kind = "err" THEN Err(prefix \o r.msg) ELSE r : r \in outcomes }

\* the locator a fetch reads
ProviderLocator(a, MountPath, req) ==
    CASE a = "vault" -> Vault_buildSecretPath(MountPath, req)
      [] a = "openbao" -> OpenBao_buildSecretPath(MountPath, req)
      [] a = "aws" -> AWS_buildSecretName(req)
      [] a = "azure" -> Azure_buildSecretName(req)
      [] a = "gcp-named" -> GCP_buildSecretName(req) \o "/versions/latest"
      [] a = "gcp-versioned" -> GCP_buildSecretVersionName(req)

ExtractSecretValue(a, payload, req) ==
    CASE a = "vault" -> Vault_extractSecretValue(payload.obj, req)
      [] a = "openbao" -> OpenBao_extractSecretValue(payload.obj, req)
      [] a = "aws" -> AWS_extractSecretValue(payload, req)
      [] a = "azure" -> Azure_extractSecretValue(payload, req)
      [] a = "gcp-named" -> GCPNamed_extractSecretValue(payload, req)
      [] a = "gcp-versioned" -> GCPVersioned_extractSecretValue(payload, req)

\* provider.GetSecret on the backend content `store`: the possible results
GetSecret(a, MountPath, store, req) ==
    LET path == ProviderLocator(a, MountPath, req) IN
    IF a = "gcp-named" /\ ~HasLabel(req, "gcp_secret_name") /\ GCP_ProjectID = ""
    THEN { Fatal("GCP_PROJECT_ID is required but not configured") }
    ELSE IF path \notin DOMAIN store
    THEN { Err("secret not found at path: " \o path) }
    ELSE IF a = "gcp-versioned"
         THEN ExtractSecretValue(a, store[path], req)
         ELSE Wrap("failed to extract secret value: ", ExtractSecretValue(a, store[path], req))

\* the locator a change-check reads
CheckLocator(a, secretInfo) ==
    CASE a = "gcp-named" -> secretInfo.SecretPath \o "/versions/latest"
      [] a = "gcp-versioned" ->
            IF Contains(secretInfo.SecretPath, "/versions/")
            THEN secretInfo.SecretPath
            ELSE secretInfo.SecretPath \o "/versions/latest"
      [] OTHER -> secretInfo.SecretPath

\* the value whose hash a change-check compares with LastHash
CheckValue(a, payload, secretInfo) ==
    CASE a \in {"vault", "openbao"} -> { KVCheckValue(payload.obj, secretInfo) }
      [] a = "aws" ->
            Wrap("failed to extract secret field: ",
                 AWS_extractSecretValueByField(payload, secretInfo.SecretField))
      [] a = "azure" ->
            Wrap("failed to extract field for rotation check: ",
                 Azure_extractSecretValueByField(payload, secretInfo.SecretField))
      [] a = "gcp-named" ->
            Wrap("failed to extract secret value: ",
                 IF secretInfo.SecretField # ""
                 THEN GCP_extractSecretValueByField(payload, secretInfo.SecretField)
                 ELSE GCPNamed_extractSecretValue(
                          payload, Request(secretInfo.DockerSecretName, "", NoLabels)))
      [] a = "gcp-versioned" -> { Ok(payload.text) }

\* provider.CheckSecretChanged: the possible results (changed, error)
CheckSecretChanged(a, store, secretInfo) ==
    LET path == CheckLocator(a, secretInfo) IN
    IF path \notin DOMAIN store
    THEN { [kind |-> "err", changed |-> FALSE] }
    ELSE { IF r.kind = "ok"
           THEN [kind |-> "ok", changed |-> Sha256Hex(r.value) # secretInfo.LastHash]
           ELSE [kind |-> r.kind, changed |-> FALSE]
           : r \in CheckValue(a, store[path], secretInfo) }

-----------------------------------------------------------------------------
(* The driver's own derivation of the locator it records.                  *)

buildVaultSecretPath(req) ==
    IF HasLabel(req, "vault_path") THEN "secret/data/" \o req.SecretLabels["vault_path"]
    ELSE IF req.ServiceName # ""
         THEN "secret/data/" \o req.ServiceName \o "/" \o req.SecretName
         ELSE "secret/data/" \o req.SecretName

buildOpenBaoSecretPath(req) ==
    IF HasLabel(req, "openbao_path") THEN "secret/data/" \o req.SecretLabels["openbao_path"]
    ELSE IF req.ServiceName # ""
         THEN "secret/data/" \o req.ServiceName \o "/" \o req.SecretName
         ELSE "secret/data/" \o req.SecretName

buildAWSSecretName(req) ==
    IF HasLabel(req, "aws_secret_name") THEN req.SecretLabels["aws_secret_name"]
    ELSE IF req.ServiceName # "" THEN req.ServiceName \o "/" \o req.SecretName
    ELSE req.SecretName

RECURSIVE normalizeGCPRunes(_, _)
normalizeGCPRunes(s, i) ==
    IF s = "" THEN ""
    ELSE (IF i = 0
          THEN IF CharAt(s, 1) \in Letters THEN CharAt(s, 1) ELSE "s"
          ELSE IF CharAt(s, 1) \in Letters \cup Digits \cup {"_", "-"}
               THEN CharAt(s, 1) ELSE "_")
         \o normalizeGCPRunes(Tail(s), i + 1)

normalizeGCPSecretName(secretName) ==
    IF Len(secretName) = 0 THEN "s" ELSE normalizeGCPRunes(secretName, 0)

buildGCPSecretName(req) ==
    IF HasLabel(req, "gcp_secret_name") THEN req.SecretLabels["gcp_secret_name"]
    ELSE normalizeGCPSecretName(
             IF req.ServiceName # "" THEN req.ServiceName \o "-" \o req.SecretName
             ELSE req.SecretName)

buildAzureSecretName(req) ==
    IF HasLabel(req, "azure_secret_name") THEN req.SecretLabels["azure_secret_name"]
    ELSE LET secretName == IF req.ServiceName # ""
                           THEN req.ServiceName \o "-" \o req.SecretName
                           ELSE req.SecretName
             result == TrimHyphens(CollapseHyphens(AzureSanitizeRunes(secretName)))
         IN IF result = "" \/ CharAt(result, 1) \in Digits
            THEN "secret-" \o result ELSE result

\* the two switches of trackSecret on d.provider.GetProviderName()
TrackedField(name, req) ==
    LET key == CASE name = "vault" -> "vault_field"
                 [] name = "aws" -> "aws_field"
                 [] name = "gcp" -> "gcp_field"
                 [] name = "azure" -> "azure_field"
                 [] name = "openbao" -> "openbao_field"
                 [] OTHER -> ""
        secretField == IF HasLabel(req, key) THEN req.SecretLabels[key] ELSE ""
    IN IF secretField = "" THEN "value" ELSE secretField

TrackedPath(name, req) ==
    CASE name = "vault" -> buildVaultSecretPath(req)
      [] name = "aws" -> buildAWSSecretName(req)
      [] name = "gcp" -> buildGCPSecretName(req)
      [] name = "azure" -> buildAzureSecretName(req)
      [] name = "openbao" -> buildOpenBaoSecretPath(req)
      [] OTHER -> req.SecretName

\* the request rotateSecret rebuilds from a tracking record
RotationRequest(secretInfo) ==
    LET p == secretInfo.Provider
        labels ==
          CASE p = "vault" ->
                 Label("vault_field", secretInfo.SecretField) @@
                 Label("vault_path", TrimPrefix(secretInfo.SecretPath, "secret/data/"))
            [] p = "aws" ->
                 Label("aws_field", secretInfo.SecretField) @@
                 Label("aws_secret_name", secretInfo.SecretPath)
            [] p = "gcp" ->
                 Label("gcp_field", secretInfo.SecretField) @@
                 Label("gcp_secret_name", secretInfo.SecretPath)
            [] p = "azure" ->
                 Label("azure_field", secretInfo.SecretField) @@
                 Label("azure_secret_name", secretInfo.SecretPath)
            [] p = "openbao" ->
                 Label("openbao_field", secretInfo.SecretField) @@
                 Label("openbao_path", TrimPrefix(secretInfo.SecretPath, "secret/data/"))
            [] OTHER -> NoLabels
    IN Request(secretInfo.DockerSecretName, "", labels)


-----------------------------------------------------------------------------
(* The universe of the model.                                              *)

SecretNames == {"db"}
ServiceNames == {"", "app", "web"}
Values == {"p1", "p2"}
MountPaths == {"secret", "kv"}

FieldKey(a) == GetProviderName(a) \o "_field"

PathKey(a) == IF a \in {"vault", "openbao"} THEN a \o "_path"
              ELSE GetProviderName(a) \o "_secret_name"

\* a locator override as an operator would write it for the adapter
CustomLocator(a) ==
    CASE a \in {"vault", "openbao", "aws"} -> "team/db"
      [] a = "azure" -> "team-db"
      [] OTHER -> "projects/" \o GCP_ProjectID \o "/secrets/team-db"

LabelChoices(a) ==
    { NoLabels, Label(FieldKey(a), "password"), Label(PathKey(a), CustomLocator(a)) }

Requests(a) ==
    { Request(n, svc, l) : n \in SecretNames, svc \in ServiceNames, l \in LabelChoices(a) }

\* the requests of the runs of sequential Gets: names with and without the
\* substrings shouldNotReuse looks for, an empty name, a name the backend
\* does not hold, and the reuse labels an operator may write
GetNames == {"", "db", "tls-cert", "api-token", "dynamic-db", "gone"}

ReuseKey(a) == GetProviderName(a) \o "_reuse"

GetLabelChoices(a) ==
    { NoLabels, Label(FieldKey(a), "password"), Label(FieldKey(a), "value"),
      Label("vault_reuse", "false") }
    \cup { Label(ReuseKey(a), v) : v \in {"false", "False", "true"} }

GetRequests(a) ==
    { Request(n, svc, l) : n \in GetNames, svc \in {"", "app"}, l \in GetLabelChoices(a) }

\* the locators at which the backend of those runs holds a secret
StoredPaths(a, MountPath) ==
    { ProviderLocator(a, MountPath, r) : r \in { x \in GetRequests(a) : x.SecretName # "gone" } }

\* what the backend holds for a secret whose fields are `fields`: a KV-v2
\* read returns the envelope {"data": {..}}, a KV-v1 read the fields, a
\* cloud backend the JSON text
KVPayload(MountPath, text, fields) ==
    IF MountPath = "secret"
    THEN JSONPayload("", [k \in {"data"} |-> ObjV("map[" \o text \o "]", fields)])
    ELSE JSONPayload("", fields)

\* the payloads of the model, by shape and value: a secret with the one
\* field "password" or "value", a text that is not JSON, a secret with the
\* two string fields "token" and "user", neither of them a default field,
\* a secret with the default fields "secret" and "password", and a secret
\* whose only field is the number "count"
Shapes == {"password", "value", "raw", "multi", "both", "count"}

FieldsOf(shape, v) ==
    CASE shape = "multi" ->
           [k \in {"token", "user"} |-> IF k = "token" THEN StrV(v) ELSE StrV("admin")]
      [] shape = "both" ->
           [k \in {"secret", "password"} |-> IF k = "password" THEN StrV(v) ELSE StrV("s3")]
      [] shape = "count" -> [k \in {"count"} |-> NumV("7")]
      [] OTHER -> [k \in {shape} |-> StrV(v)]

GoTextOf(shape, v) ==
    CASE shape = "multi" -> "token:" \o v \o " user:admin"
      [] shape = "both" -> "password:" \o v \o " secret:s3"
      [] shape = "count" -> "count:7"
      [] OTHER -> shape \o ":" \o v

JSONTextOf(shape, v) ==
    CASE shape = "multi" -> "{\"token\":\"" \o v \o "\",\"user\":\"admin\"}"
      [] shape = "both" -> "{\"secret\":\"s3\",\"password\":\"" \o v \o "\"}"
      [] shape = "count" -> "{\"count\":7}"
      [] OTHER -> "{\"" \o shape \o "\":\"" \o v \o "\"}"

PayloadOf(a, MountPath, shape, v) ==
    IF a \in {"vault", "openbao"}
    THEN KVPayload(MountPath, GoTextOf(shape, v), FieldsOf(shape, v))
    ELSE IF shape = "raw"
         THEN RawPayload(v)
         ELSE JSONPayload(JSONTextOf(shape, v), FieldsOf(shape, v))

ShapesOf(a) == IF a \in {"vault", "openbao"} THEN {"password", "value"} ELSE {"password", "raw"}

\* the shapes of the runs that only fetch
FetchShapes(a) == ShapesOf(a) \cup {"multi", "both", "count"}

\* a payload whose shape the adapter does not expect: a KV read whose "data"
\* entry is null, which is what the read of a KV-v2 secret returns once its
\* latest version is deleted ("data": null beside the metadata)
UnexpectedPayloads(a, MountPath) ==
    IF a \in {"vault", "openbao"}
    THEN { JSONPayload("", [k \in {"data"} |-> NullV]) }
    ELSE {}

\* what an operator may write for a secret
Payloads(a, MountPath, shape) ==
    { PayloadOf(a, MountPath, shape, v) : v \in Values } \cup UnexpectedPayloads(a, MountPath)

\* the locators at which the backend holds a secret
BackendPaths(a, MountPath) == { ProviderLocator(a, MountPath, r) : r \in Requests(a) }

-----------------------------------------------------------------------------
(* State.                                                                  *)

VARIABLES
    adapter,        \* d.provider: the adapter CreateProvider made
    MountPath,      \* config.MountPath of the KV adapters
    EnableRotation, \* d.config.EnableRotation
    driver,         \* the process: before NewDriver, running, or exited
    monitoring,     \* the startMonitoring goroutine was started by NewDriver
    backend,        \* the secret store: locator -> payload
    shape,          \* the shape of the payloads the backend holds
    events,         \* backend writes and Get calls so far
    secretTracker,  \* d.secretTracker: docker secret name -> SecretInfo
    trackerMutex,   \* d.trackerMutex: who holds the registry lock, and how
    pendingGets,    \* Get calls between provider.GetSecret and trackSecret
    dockerSecrets,  \* the orchestrator's secret objects
    services,       \* the orchestrator's services, in ServiceList order
    nextID,         \* the next identifier SecretCreate hands out
    ticks,          \* ticker firings so far; the time, in rotation intervals
    monPc,          \* where the monitoring goroutine is
    snapshot,       \* the names of checkForSecretChanges' copy still to visit
    rot,            \* the locals of the rotation in progress
    stopPc,         \* where SecretsDriver.Stop and the exit after it are
    response,       \* the secrets.Response the last sequential Get returned
    lastRequest,    \* history: the secrets.Request of that Get
    providerCalls,  \* history: calls of provider.GetSecret made by such Gets
    served,         \* history: Get calls answered with a value so far
    rotated,        \* history: the names rotated successfully so far
    delivered,      \* history: name -> the bytes last handed to a consumer
    pendingRetry    \* history: names with a reported change that no rotation
                    \* has propagated, the backend not rewritten since

vars == << adapter, MountPath, EnableRotation, settings, driver, monitoring, backend,
           shape, events,
           secretTracker, trackerMutex, pendingGets, dockerSecrets, services, nextID,
           ticks, monPc, snapshot, rot, stopPc, response, lastRequest, providerCalls,
           served, rotated, delivered, pendingRetry >>

config == << adapter, MountPath, EnableRotation, settings, monitoring, shape >>
fetchPath == << pendingGets >>
orchestrator == << dockerSecrets, services, nextID >>
engine == << monPc, snapshot, rot >>
history == << served, rotated, delivered, pendingRetry >>
getLog == << response, lastRequest, providerCalls, driver >>

\* a secret reference of a task template
SecretRef(id, name, file) ==
    [File |-> [Name |-> file, UID |-> "0", GID |-> "0", Mode |-> 292],
     SecretID |-> id, SecretName |-> name]

NoCheck == [kind |-> "", changed |-> FALSE]

NoRot == [name |-> "", check |-> NoCheck, newValue |-> "", oldID |-> "", newName |-> "", newID |-> "",
          labels |-> NoLabels, svcs |-> <<>>, i |-> 0, updated |-> {},
          result |-> "", failedAt |-> "", oldRemoved |-> FALSE, newRemoved |-> FALSE]

InitialSecrets ==
    { [ID |-> "s1", Name |-> "db", Labels |-> Label("team", "core"), Data |-> ""],
      [ID |-> "s2", Name |-> "tls", Labels |-> NoLabels, Data |-> "cert"] }

InitialServices ==
    << [ID |-> "v1", Name |-> "app", Version |-> 1, Rotated |-> 0,
        Secrets |-> << SecretRef("s1", "db", "db") >>],
       [ID |-> "v2", Name |-> "web", Version |-> 1, Rotated |-> 0,
        Secrets |-> << SecretRef("s2", "tls", "tls.pem"), SecretRef("s1", "db", "db_password") >>],
       [ID |-> "v3", Name |-> "batch", Version |-> 1, Rotated |-> 0,
        Secrets |-> << SecretRef("s2", "tls", "tls.pem") >>] >>

\* a Get between provider.GetSecret and its response
PendingGet(req, value) == [req |-> req, value |-> value]

NoGet == PendingGet(Request("", "", NoLabels), "")

\* trackerMutex (sync.RWMutex): free, read-locked by checkForSecretChanges,
\* or write-locked by rotateSecret or by the trackSecret of a Get
Unlocked == [mode |-> "", holder |-> "", get |-> NoGet]
RLocked == [mode |-> "R", holder |-> "monitor", get |-> NoGet]
LockedByMonitor == [mode |-> "W", holder |-> "monitor", get |-> NoGet]
LockedByGet(g) == [mode |-> "W", holder |-> "get", get |-> g]

\* NewDriver: go driver.startMonitoring() only if both hold
StartsMonitoring(enable, a) == enable /\ SupportsRotation(a)

\* secrets.Response
Response(value, err, doNotReuse) == [Value |-> value, Err |-> err, DoNotReuse |-> doNotReuse]

NoResponse == Response("", "", FALSE)

\* the configuration keys an operator may set for the adapter, each to a
\* non-empty value, besides SECRETS_PROVIDER, the mount path and
\* ENABLE_ROTATION; the authentication method is the default one, "token"
ConfigKeys(a) ==
    CASE a = "vault" -> {"VAULT_ADDR", "VAULT_TOKEN"}
      [] a = "openbao" -> {"OPENBAO_ADDR", "OPENBAO_TOKEN"}
      [] a = "aws" -> {"AWS_REGION"}
      [] a = "azure" -> {"AZURE_VAULT_URL"}
      [] OTHER -> {"GCP_PROJECT_ID"}

\* getConfigOrDefault: the value of a key the environment does not set
Absent(defaultValue) == [set |-> FALSE, default |-> defaultValue]
Present == [set |-> TRUE, default |-> ""]

getConfigOrDefault(env, key, defaultValue) ==
    IF key \in env THEN Present ELSE Absent(defaultValue)

\* the empty string
Empty(value) == ~value.set /\ value.default = ""

\* provider.Initialize(settings): the error it returns, "" for none
Initialize(a, env) ==
    CASE a = "vault" ->
           LET Token == getConfigOrDefault(env, "VAULT_TOKEN", "hvs.tD053xbJ1C5lo2EbtZnn2JU8")
           IN IF Empty(Token) THEN "VAULT_TOKEN is required for token authentication"
              ELSE ""
      [] a = "openbao" ->
           LET Token == getConfigOrDefault(env, "OPENBAO_TOKEN", "")
           IN IF Empty(Token) THEN "OPENBAO_TOKEN is required for token authentication"
              ELSE ""
      [] a = "aws" -> ""
      [] a = "azure" ->
           IF Empty(getConfigOrDefault(env, "AZURE_VAULT_URL", ""))
           THEN "AZURE_VAULT_URL is required in the configuration" ELSE ""
      [] a = "gcp-named" -> ""
      [] a = "gcp-versioned" ->
           IF Empty(getConfigOrDefault(env, "GCP_PROJECT_ID", ""))
           THEN "GCP_PROJECT_ID must be provided" ELSE ""

\* what NewDriver sets up besides the configuration, over a backend that
\* holds payloads of one shape at the locators `paths`
Fresh(paths) ==
    /\ backend = [p \in paths |-> PayloadOf(adapter, MountPath, shape, "p1")]
    /\ events = 0
    /\ secretTracker = [n \in {} |-> NoRot]
    /\ trackerMutex = Unlocked
    /\ pendingGets = {}
    /\ dockerSecrets = InitialSecrets
    /\ services = InitialServices
    /\ nextID = 3
    /\ ticks = 0
    /\ monPc = "idle"
    /\ snapshot = {}
    /\ rot = NoRot
    /\ stopPc = "running"
    /\ response = NoResponse
    /\ lastRequest = Request("", "", NoLabels)
    /\ providerCalls = 0
    /\ served = 0
    /\ rotated = {}
    /\ delivered = [n \in {} |-> ""]
    /\ pendingRetry = {}

\* the state NewDriver leaves when every configuration key is set
Started(paths) ==
    /\ adapter \in Adapters
    /\ MountPath \in (IF adapter \in {"vault", "openbao"} THEN MountPaths ELSE {"secret"})
    /\ EnableRotation \in BOOLEAN
    /\ settings = ConfigKeys(adapter)
    /\ driver = "running"
    /\ monitoring = StartsMonitoring(EnableRotation, adapter)
    /\ shape \in FetchShapes(adapter)
    /\ Fresh(paths)

Constructed == Started(BackendPaths(adapter, MountPath))

Init == Constructed /\ shape \in ShapesOf(adapter)

-----------------------------------------------------------------------------
(* The environment: an operator rewrites a secret in the backend.          *)

BackendWrite(path, payload) ==
    /\ events < MaxEvents
    /\ monPc # "crashed"
    /\ backend[path] # payload
    /\ backend' = [backend EXCEPT ![path] = payload]
    /\ events' = events + 1
    /\ pendingRetry' = {}
    /\ UNCHANGED << config, getLog, stopPc, trackerMutex, secretTracker,
                    fetchPath, orchestrator, ticks, engine, served, rotated,
                    delivered >>

-----------------------------------------------------------------------------
(* The fetch path: SecretsDriver.Get.                                      *)

\* trackSecret without the search for the service name in the record
trackSecretNoSearch(tracker, name, req, value, now) ==
    IF req.SecretName \in DOMAIN tracker
    THEN [tracker EXCEPT ![req.SecretName] =
            [tracker[req.SecretName] EXCEPT
               !.ServiceNames = Append(tracker[req.SecretName].ServiceNames, req.ServiceName),
               !.LastHash = Sha256Hex(value),
               !.LastUpdated = now]]
    ELSE [n \in DOMAIN tracker \cup {req.SecretName} |->
            IF n = req.SecretName
            THEN [DockerSecretName |-> req.SecretName,
                  SecretPath |-> TrackedPath(name, req),
                  SecretField |-> TrackedField(name, req),
                  ServiceNames |-> << req.ServiceName >>,
                  LastHash |-> Sha256Hex(value),
                  LastUpdated |-> now,
                  Provider |-> name]
            ELSE tracker[n]]

\* trackSecret that files the record it has built in place of the existing one
trackSecretReplacing(tracker, name, req, value, now) ==
    [n \in DOMAIN tracker \cup {req.SecretName} |->
        IF n = req.SecretName
        THEN [DockerSecretName |-> req.SecretName,
              SecretPath |-> TrackedPath(name, req),
              SecretField |-> TrackedField(name, req),
              ServiceNames |-> << req.ServiceName >>,
              LastHash |-> Sha256Hex(value),
              LastUpdated |-> now,
              Provider |-> name]
        ELSE tracker[n]]

\* the upsert of trackSecret, under trackerMutex
trackSecret(tracker, name, req, value, now) ==
    LET hash == Sha256Hex(value)
        secretInfo == [DockerSecretName |-> req.SecretName,
                       SecretPath |-> TrackedPath(name, req),
                       SecretField |-> TrackedField(name, req),
                       ServiceNames |-> << req.ServiceName >>,
                       LastHash |-> hash,
                       LastUpdated |-> now,
                       Provider |-> name]
    IN IF req.SecretName \in DOMAIN tracker
       THEN LET existing == tracker[req.SecretName]
                serviceFound == req.ServiceName \in Range(existing.ServiceNames)
            IN [tracker EXCEPT ![req.SecretName] =
                  [existing EXCEPT
                     !.ServiceNames = IF ~serviceFound /\ req.ServiceName # ""
                                      THEN Append(existing.ServiceNames, req.ServiceName)
                                      ELSE existing.ServiceNames,
                     !.LastHash = hash,
                     !.LastUpdated = now]]
       ELSE [n \in DOMAIN tracker \cup {req.SecretName} |->
               IF n = req.SecretName THEN secretInfo ELSE tracker[n]]

\* Tracks without the global switch
TracksWithoutSwitch(enable, a) == SupportsRotation(a)

\* if d.config.EnableRotation && d.provider.SupportsRotation() { d.trackSecret(req, value) }
Tracks(enable, a) == enable /\ SupportsRotation(a)

\* a call into the backend may fail for reasons of its own (network, auth)
Transient == Err("transient")

\* Get up to the return of provider.GetSecret
GetFetch(req) ==
    /\ monPc # "crashed"
    /\ req.SecretName # ""
    /\ Cardinality(pendingGets) < MaxInFlight
    /\ events < MaxEvents
    /\ events' = events + 1
    /\ \E r \in GetSecret(adapter, MountPath, backend, req) \cup {Transient} :
          IF r.kind = "ok" /\ Tracks(EnableRotation, adapter)
          THEN /\ pendingGets' = pendingGets \cup {PendingGet(req, r.value)}
               /\ UNCHANGED served
          ELSE /\ pendingGets' = pendingGets
               /\ served' = IF r.kind = "ok" THEN served + 1 ELSE served
    /\ UNCHANGED << config, getLog, stopPc, trackerMutex, backend,
                    secretTracker, orchestrator, ticks, engine, rotated,
                    delivered, pendingRetry >>

\* trackSecret: d.trackerMutex.Lock(), which waits while the lock is held
GetLock(g) ==
    /\ monPc # "crashed"
    /\ g \in pendingGets
    /\ trackerMutex = Unlocked
    /\ trackerMutex' = LockedByGet(g)
    /\ UNCHANGED << config, getLog, stopPc, backend, events, secretTracker,
                    fetchPath, orchestrator, ticks, engine, history >>

\* GetTrack that also removes the orchestrator's secret object of that name
GetTrackRemovingSecret(g) ==
    /\ monPc # "crashed"
    /\ g \in pendingGets
    /\ trackerMutex = LockedByGet(g)
    /\ trackerMutex' = Unlocked
    /\ secretTracker' = trackSecret(secretTracker, GetProviderName(adapter), g.req, g.value, ticks)
    /\ pendingGets' = pendingGets \ {g}
    /\ dockerSecrets' = { x \in dockerSecrets : x.Name # g.req.SecretName }
    /\ delivered' = [n \in DOMAIN delivered \cup {g.req.SecretName} |->
                        IF n = g.req.SecretName THEN g.value ELSE delivered[n]]
    /\ served' = served + 1
    /\ UNCHANGED << config, getLog, stopPc, backend, events, services, nextID,
                    ticks, engine, rotated, pendingRetry >>

\* the rest of Get: the upsert of trackSecret, the deferred Unlock,
\* shouldNotReuse, the response
GetTrack(g) ==
    /\ monPc # "crashed"
    /\ g \in pendingGets
    /\ trackerMutex = LockedByGet(g)
    /\ trackerMutex' = Unlocked
    /\ secretTracker' = trackSecret(secretTracker, GetProviderName(adapter), g.req, g.value, ticks)
    /\ pendingGets' = pendingGets \ {g}
    /\ delivered' = [n \in DOMAIN delivered \cup {g.req.SecretName} |->
                        IF n = g.req.SecretName THEN g.value ELSE delivered[n]]
    /\ served' = served + 1
    /\ UNCHANGED << config, getLog, stopPc, backend, events, orchestrator,
                    ticks, engine, rotated, pendingRetry >>

\* shouldNotReuse: the label consulted is "vault_reuse" whatever the provider
shouldNotReuse(req) ==
    IF HasLabel(req, "vault_reuse")
    THEN ToLower(req.SecretLabels["vault_reuse"]) = "false"
    ELSE \/ Contains(req.SecretName, "cert")
         \/ Contains(req.SecretName, "token")
         \/ Contains(req.SecretName, "dynamic")

\* the response of Get to an error of provider.GetSecret, without the message
GetErrorResponseBare(err) == Response("", "failed to get secret", FALSE)

\* Err: fmt.Sprintf("failed to get secret: %v", err)
GetErrorResponse(err) == Response("", "failed to get secret: " \o err, FALSE)

\* Get from provider.GetSecret on: the error response, or trackSecret (Lock,
\* upsert, Unlock), shouldNotReuse and the response with the value.  A
\* panic of the provider call is recovered by net/http, which closes the
\* connection: the caller gets no response.  log.Fatal ends the process
GetValue(req) ==
    /\ providerCalls' = providerCalls + 1
    /\ \E r \in GetSecret(adapter, MountPath, backend, req) \cup {Transient} :
          /\ driver' = IF r.kind = "fatal" THEN "exited" ELSE driver
          /\ r = Transient =>
                \A x \in GetSecret(adapter, MountPath, backend, req) : x.kind # "fatal"
          /\ CASE r.kind = "ok" ->
                 /\ secretTracker' =
                       IF Tracks(EnableRotation, adapter)
                       THEN trackSecret(secretTracker, GetProviderName(adapter),
                                        req, r.value, ticks)
                       ELSE secretTracker
                 /\ response' = Response(r.value, "", shouldNotReuse(req))
                 /\ delivered' = [n \in DOMAIN delivered \cup {req.SecretName} |->
                                     IF n = req.SecretName THEN r.value ELSE delivered[n]]
                 /\ served' = served + 1
               [] r.kind = "err" ->
                 /\ response' = GetErrorResponse(r.msg)
                 /\ UNCHANGED << served, secretTracker, delivered >>
               [] r.kind \in {"panic", "fatal"} ->
                 /\ response' = NoResponse
                 /\ UNCHANGED << served, secretTracker, delivered >>

\* a Get arrives while no other goroutine is at work
GetArrives(req) ==
    /\ driver = "running"
    /\ monPc # "crashed"
    /\ trackerMutex = Unlocked
    /\ events < MaxGets
    /\ events' = events + 1
    /\ lastRequest' = req
    /\ UNCHANGED << config, stopPc, trackerMutex, backend, fetchPath,
                    orchestrator, ticks, engine, rotated, pendingRetry >>

\* Get without the check of the name
GetUnvalidated(req) == GetArrives(req) /\ GetValue(req)

\* Get from the request to the response, as one step
Get(req) ==
    /\ GetArrives(req)
    /\ IF req.SecretName = ""
       THEN /\ response' = Response("", "secret name is required", FALSE)
            /\ UNCHANGED << providerCalls, driver, served, secretTracker, delivered >>
       ELSE GetValue(req)

-----------------------------------------------------------------------------
(* The rotation engine: startMonitoring, checkForSecretChanges,            *)
(* hasSecretChanged, rotateSecret, updateDockerSecret,                     *)
(* updateServicesSecretReference.  Every call into the provider or the     *)
(* orchestrator is a step of its own.                                      *)

\* the end of one iteration of checkForSecretChanges' loop
Visited(n) ==
    /\ snapshot' = snapshot \ {n}
    /\ monPc' = IF snapshot \ {n} = {} THEN "idle" ELSE "scan"

\* Tick taken wherever the loop is
TickOverlapping ==
    /\ monitoring
    /\ ticks < MaxTicks
    /\ trackerMutex = Unlocked
    /\ ticks' = ticks + 1
    /\ trackerMutex' = RLocked
    /\ monPc' = "snapshot"
    /\ UNCHANGED << config, getLog, stopPc, backend, events, secretTracker,
                    fetchPath, orchestrator, snapshot, rot, history >>

\* case <-ticker.C: checkForSecretChanges starts with
\* d.trackerMutex.RLock(), which waits while a writer holds the lock
Tick ==
    /\ monitoring
    /\ monPc = "idle"
    /\ ticks < MaxTicks
    /\ trackerMutex = Unlocked
    /\ ticks' = ticks + 1
    /\ trackerMutex' = RLocked
    /\ monPc' = "snapshot"
    /\ UNCHANGED << config, getLog, stopPc, backend, events, secretTracker,
                    fetchPath, orchestrator, snapshot, rot, history >>

\* TakeSnapshot without the RUnlock
TakeSnapshotKeepingLock ==
    /\ monPc = "snapshot"
    /\ snapshot' = DOMAIN secretTracker
    /\ monPc' = IF DOMAIN secretTracker = {} THEN "idle" ELSE "scan"
    /\ UNCHANGED << config, getLog, stopPc, trackerMutex, backend, events,
                    secretTracker, fetchPath, orchestrator, ticks, rot,
                    history >>

\* checkForSecretChanges: the copy of the registry, which holds pointers to
\* the registry's records, RUnlock, and the return if the copy is empty
TakeSnapshot ==
    /\ monPc = "snapshot"
    /\ snapshot' = DOMAIN secretTracker
    /\ trackerMutex' = Unlocked
    /\ monPc' = IF DOMAIN secretTracker = {} THEN "idle" ELSE "scan"
    /\ UNCHANGED << config, getLog, stopPc, backend, events, secretTracker,
                    fetchPath, orchestrator, ticks, rot, history >>

\* Changed that takes every check for a change
ChangedAlways(r) == TRUE

\* hasSecretChanged: an error of the check counts as no change
Changed(r) == r.kind = "ok" /\ r.changed

\* hasSecretChanged: the call of provider.CheckSecretChanged on the live
\* record, which may fail for reasons of its own.  The record is read with
\* no lock held; a read that races with an upsert sees the fingerprint of
\* before or of after it (both are hex strings of one length), which are
\* the results of this step taken before or after GetTrack
HasSecretChanged(n) ==
    /\ monPc = "scan"
    /\ n \in snapshot
    /\ \E r \in CheckSecretChanged(adapter, backend, secretTracker[n])
                  \cup {[kind |-> "err", changed |-> FALSE]} :
          /\ monPc' = IF r.kind = "panic" THEN "crashed" ELSE "checked"
          /\ rot' = [NoRot EXCEPT !.name = n, !.check = r]
          /\ pendingRetry' = IF Changed(r) THEN pendingRetry \cup {n} ELSE pendingRetry
    /\ UNCHANGED << config, getLog, stopPc, trackerMutex, backend, events,
                    secretTracker, fetchPath, orchestrator, ticks, snapshot,
                    served, rotated, delivered >>

\* checkForSecretChanges: if d.hasSecretChanged(secretInfo) { d.rotateSecret(secretInfo) }
RotateIfChanged ==
    /\ monPc = "checked"
    /\ IF Changed(rot.check)
       THEN monPc' = "refetch" /\ UNCHANGED << snapshot, rot >>
       ELSE Visited(rot.name) /\ rot' = NoRot
    /\ UNCHANGED << config, getLog, stopPc, trackerMutex, backend, events,
                    secretTracker, fetchPath, orchestrator, ticks, history >>

\* rotateSecret returns an error
Fails(at) ==
    /\ monPc' = "returned"
    /\ rot' = [rot EXCEPT !.result = "err", !.failedAt = at]

\* rotateSecret: newValue, err := d.provider.GetSecret(ctx, req)
RotateFetch ==
    /\ monPc = "refetch"
    /\ \E r \in GetSecret(adapter, MountPath, backend, RotationRequest(secretTracker[rot.name]))
                  \cup {Transient} :
          IF r.kind = "panic"
          THEN monPc' = "crashed" /\ UNCHANGED rot
          ELSE IF r.kind = "ok"
               THEN monPc' = "list" /\ rot' = [rot EXCEPT !.newValue = r.value]
               ELSE Fails("refetch")
    /\ UNCHANGED << config, getLog, stopPc, trackerMutex, backend, events,
                    secretTracker, fetchPath, orchestrator, ticks, snapshot,
                    history >>

\* SecretList that goes on to create the new version when no object has
\* the name
SecretListThenCreate(ok) ==
    /\ monPc = "list"
    /\ LET found == { x \in dockerSecrets : x.Name = rot.name } IN
       IF ~ok THEN Fails("list")
       ELSE /\ monPc' = "create"
            /\ rot' = [rot EXCEPT
                         !.oldID = IF found = {} THEN ""
                                   ELSE (CHOOSE x \in found : TRUE).ID,
                         !.labels = IF found = {} THEN NoLabels
                                    ELSE (CHOOSE x \in found : TRUE).Labels,
                         !.newName = rot.name \o "-" \o ToString(ticks)]
    /\ UNCHANGED << config, getLog, stopPc, trackerMutex, backend, events,
                    secretTracker, fetchPath, orchestrator, ticks, snapshot,
                    history >>

\* updateDockerSecret: SecretList, the search for the object of that name,
\* and the name of the new version
SecretList(ok) ==
    /\ monPc = "list"
    /\ LET found == { x \in dockerSecrets : x.Name = rot.name } IN
       IF ~ok THEN Fails("list")
       ELSE IF found = {} THEN Fails("notfound")
       ELSE LET existingSecret == CHOOSE x \in found : TRUE IN
            /\ monPc' = "create"
            /\ rot' = [rot EXCEPT !.oldID = existingSecret.ID,
                                  !.labels = existingSecret.Labels,
                                  !.newName = rot.name \o "-" \o ToString(ticks)]
    /\ UNCHANGED << config, getLog, stopPc, trackerMutex, backend, events,
                    secretTracker, fetchPath, orchestrator, ticks, snapshot,
                    history >>

\* SecretCreate followed at once by the removal of the old object
SecretCreateRemovingOld(ok) ==
    /\ monPc = "create"
    /\ IF ~ok THEN Fails("create") /\ UNCHANGED << dockerSecrets, nextID >>
       ELSE /\ dockerSecrets' = { x \in dockerSecrets : x.ID # rot.oldID } \cup
                   {[ID |-> "s" \o ToString(nextID), Name |-> rot.newName,
                     Labels |-> rot.labels, Data |-> rot.newValue]}
            /\ nextID' = nextID + 1
            /\ rot' = [rot EXCEPT !.newID = "s" \o ToString(nextID)]
            /\ monPc' = "svclist"
    /\ UNCHANGED << config, getLog, stopPc, trackerMutex, backend, events,
                    secretTracker, fetchPath, services, ticks, snapshot,
                    history >>

SecretCreate(ok) ==
    /\ monPc = "create"
    /\ IF ~ok THEN Fails("create") /\ UNCHANGED << dockerSecrets, nextID >>
       ELSE /\ dockerSecrets' = dockerSecrets \cup
                   {[ID |-> "s" \o ToString(nextID), Name |-> rot.newName,
                     Labels |-> rot.labels, Data |-> rot.newValue]}
            /\ nextID' = nextID + 1
            /\ rot' = [rot EXCEPT !.newID = "s" \o ToString(nextID)]
            /\ monPc' = "svclist"
    /\ UNCHANGED << config, getLog, stopPc, trackerMutex, backend, events,
                    secretTracker, fetchPath, services, ticks, snapshot,
                    history >>

\* needsUpdate set for every service
NeedsUpdateAlways(service, oldSecretName) == TRUE

\* needsUpdate of updateServicesSecretReference
NeedsUpdate(service, oldSecretName) ==
    \E i \in DOMAIN service.Secrets : service.Secrets[i].SecretName = oldSecretName

\* the next service from index i on that needs the update
RECURSIVE NextToUpdate(_, _, _)
NextToUpdate(svcs, i, oldSecretName) ==
    IF i > Len(svcs) THEN i
    ELSE IF NeedsUpdate(svcs[i], oldSecretName) THEN i
    ELSE NextToUpdate(svcs, i + 1, oldSecretName)

\* updatedSecrets that renames the matching references and keeps their ID
UpdatedSecretsKeepID(refs, oldSecretName, newSecretName, newSecretID) ==
    [i \in DOMAIN refs |->
        IF refs[i].SecretName = oldSecretName
        THEN [File |-> refs[i].File, SecretID |-> refs[i].SecretID,
              SecretName |-> newSecretName]
        ELSE refs[i]]

\* updatedSecrets: every matching reference gets the new name and ID
UpdatedSecrets(refs, oldSecretName, newSecretName, newSecretID) ==
    [i \in DOMAIN refs |->
        IF refs[i].SecretName = oldSecretName
        THEN [File |-> refs[i].File, SecretID |-> newSecretID, SecretName |-> newSecretName]
        ELSE refs[i]]

\* updateServicesSecretReference: ServiceList
ServiceList(ok) ==
    /\ monPc = "svclist"
    /\ IF ~ok
       THEN monPc' = "rollback" /\ rot' = [rot EXCEPT !.failedAt = "svclist"]
       ELSE /\ rot' = [rot EXCEPT !.svcs = services,
                                  !.i = NextToUpdate(services, 1, rot.name)]
            /\ monPc' = IF NextToUpdate(services, 1, rot.name) > Len(services)
                        THEN "removeold" ELSE "update"
    /\ UNCHANGED << config, getLog, stopPc, trackerMutex, backend, events,
                    secretTracker, fetchPath, orchestrator, ticks, snapshot,
                    history >>

\* the orchestrator applies an accepted update
ApplyUpdate(svcs, id, newSecrets, stamp) ==
    [j \in DOMAIN svcs |->
        IF svcs[j].ID = id
        THEN [svcs[j] EXCEPT !.Secrets = newSecrets, !.Rotated = stamp,
                             !.Version = svcs[j].Version + 1]
        ELSE svcs[j]]

\* updateServicesSecretReference: ServiceUpdate of the next service that
\* references the secret; an error ends the loop at once
ServiceUpdate(ok) ==
    /\ monPc = "update"
    /\ LET service == rot.svcs[rot.i]
           next == NextToUpdate(rot.svcs, rot.i + 1, rot.name)
       IN IF ~ok
          THEN /\ monPc' = "rollback"
               /\ rot' = [rot EXCEPT !.failedAt = "update"]
               /\ UNCHANGED << services, delivered >>
          ELSE /\ services' = ApplyUpdate(services, service.ID,
                                  UpdatedSecrets(service.Secrets, rot.name, rot.newName, rot.newID),
                                  ticks)
               /\ rot' = [rot EXCEPT !.i = next, !.updated = rot.updated \cup {service.ID}]
               /\ monPc' = IF next > Len(rot.svcs) THEN "removeold" ELSE "update"
               /\ delivered' = [delivered EXCEPT ![rot.name] = rot.newValue]
    /\ UNCHANGED << config, getLog, stopPc, trackerMutex, backend, events,
                    secretTracker, fetchPath, dockerSecrets, nextID, ticks,
                    snapshot, served, rotated, pendingRetry >>

\* updateDockerSecret after a failed service update: SecretRemove of the
\* new object, a failure of which is only logged
RemoveNewSecret(ok) ==
    /\ monPc = "rollback"
    /\ dockerSecrets' = IF ok THEN { x \in dockerSecrets : x.ID # rot.newID }
                        ELSE dockerSecrets
    /\ monPc' = "returned"
    /\ rot' = [rot EXCEPT !.result = "err", !.newRemoved = ok]
    /\ UNCHANGED << config, getLog, stopPc, trackerMutex, backend, events,
                    secretTracker, fetchPath, services, nextID, ticks,
                    snapshot, history >>

\* RemoveOldSecret that returns the error of SecretRemove
RemoveOldSecretFatal(ok) ==
    /\ monPc = "removeold"
    /\ IF ok
       THEN /\ dockerSecrets' = { x \in dockerSecrets : x.ID # rot.oldID }
            /\ monPc' = "lock"
            /\ rot' = [rot EXCEPT !.oldRemoved = TRUE]
       ELSE Fails("removeold") /\ UNCHANGED dockerSecrets
    /\ UNCHANGED << config, getLog, stopPc, trackerMutex, backend, events,
                    secretTracker, fetchPath, services, nextID, ticks, snapshot,
                    history >>

\* updateDockerSecret after the services are updated: SecretRemove of the
\* old object, a failure of which is only logged
RemoveOldSecret(ok) ==
    /\ monPc = "removeold"
    /\ dockerSecrets' = IF ok THEN { x \in dockerSecrets : x.ID # rot.oldID }
                        ELSE dockerSecrets
    /\ monPc' = "lock"
    /\ rot' = [rot EXCEPT !.oldRemoved = ok]
    /\ UNCHANGED << config, getLog, stopPc, trackerMutex, backend, events,
                    secretTracker, fetchPath, services, nextID, ticks,
                    snapshot, history >>

\* rotateSecret: d.trackerMutex.Lock(), which waits while the lock is held
LockTracking ==
    /\ monPc = "lock"
    /\ trackerMutex = Unlocked
    /\ trackerMutex' = LockedByMonitor
    /\ monPc' = "writeback"
    /\ UNCHANGED << config, getLog, stopPc, backend, events, secretTracker,
                    fetchPath, orchestrator, ticks, snapshot, rot, history >>

\* rotateSecret's last step: the write-back under trackerMutex, and Unlock
UpdateTracking ==
    /\ monPc = "writeback"
    /\ trackerMutex' = Unlocked
    /\ secretTracker' = [secretTracker EXCEPT
                            ![rot.name].LastHash = Sha256Hex(rot.newValue),
                            ![rot.name].LastUpdated = ticks]
    /\ monPc' = "returned"
    /\ rot' = [rot EXCEPT !.result = "ok"]
    /\ rotated' = rotated \cup {rot.name}
    /\ pendingRetry' = pendingRetry \ {rot.name}
    /\ UNCHANGED << config, getLog, stopPc, backend, events, fetchPath,
                    orchestrator, ticks, snapshot, served, delivered >>

\* RotateReturn that drops the record of a rotation that failed
RotateReturnForgetting ==
    /\ monPc = "returned"
    /\ Visited(rot.name)
    /\ rot' = NoRot
    /\ secretTracker' = IF rot.result = "err"
                        THEN [n \in DOMAIN secretTracker \ {rot.name} |-> secretTracker[n]]
                        ELSE secretTracker
    /\ UNCHANGED << config, getLog, stopPc, trackerMutex, backend, events,
                    fetchPath, orchestrator, ticks, history >>

\* checkForSecretChanges logs the result of rotateSecret and goes on
RotateReturn ==
    /\ monPc = "returned"
    /\ Visited(rot.name)
    /\ rot' = NoRot
    /\ UNCHANGED << config, getLog, stopPc, trackerMutex, backend, events,
                    secretTracker, fetchPath, orchestrator, ticks, history >>

-----------------------------------------------------------------------------

Next ==
    \/ \E path \in DOMAIN backend, payload \in Payloads(adapter, MountPath, shape) :
          BackendWrite(path, payload)
    \/ \E req \in Requests(adapter) : GetFetch(req)
    \/ \E g \in pendingGets : GetLock(g)
    \/ \E g \in pendingGets : GetTrack(g)
    \/ Tick
    \/ TakeSnapshot
    \/ \E n \in snapshot : HasSecretChanged(n)
    \/ RotateIfChanged
    \/ RotateFetch
    \/ \E ok \in BOOLEAN : SecretList(ok)
    \/ \E ok \in BOOLEAN : SecretCreate(ok)
    \/ \E ok \in BOOLEAN : ServiceList(ok)
    \/ \E ok \in BOOLEAN : ServiceUpdate(ok)
    \/ \E ok \in BOOLEAN : RemoveNewSecret(ok)
    \/ \E ok \in BOOLEAN : RemoveOldSecret(ok)
    \/ LockTracking
    \/ UpdateTracking
    \/ RotateReturn

Spec == Init /\ [][Next]_vars

-----------------------------------------------------------------------------
(* Shutdown: the goroutine of main that waits for SIGINT or SIGTERM calls  *)
(* SecretsDriver.Stop and then os.Exit(0).  The calls of the engine and of *)
(* Get carry contexts made from context.Background(), which monitorCancel  *)
(* does not cancel.                                                        *)

\* Stop: d.monitorCancel()
StopCancel ==
    /\ stopPc = "running"
    /\ stopPc' = "cancelled"
    /\ UNCHANGED << config, getLog, trackerMutex, backend, events,
                    secretTracker, fetchPath, orchestrator, ticks, engine,
                    history >>

\* Stop: d.monitor.Stop(), d.webInterface.Stop(), d.provider.Close()
StopCloseProvider ==
    /\ stopPc = "cancelled"
    /\ stopPc' = "providerClosed"
    /\ UNCHANGED << config, getLog, trackerMutex, backend, events,
                    secretTracker, fetchPath, orchestrator, ticks, engine,
                    history >>

\* Stop: return d.dockerClient.Close()
StopCloseDocker ==
    /\ stopPc = "providerClosed"
    /\ stopPc' = "closed"
    /\ UNCHANGED << config, getLog, trackerMutex, backend, events,
                    secretTracker, fetchPath, orchestrator, ticks, engine,
                    history >>

\* main: os.Exit(0) after Stop has returned
Exit ==
    /\ stopPc = "closed"
    /\ stopPc' = "exited"
    /\ UNCHANGED << config, getLog, trackerMutex, backend, events,
                    secretTracker, fetchPath, orchestrator, ticks, engine,
                    history >>

\* startMonitoring: case <-d.monitorCtx.Done(): return; when a tick is due
\* as well, select takes either case
MonitorStopped ==
    /\ monitoring
    /\ monPc = "idle"
    /\ stopPc # "running"
    /\ monPc' = "stopped"
    /\ UNCHANGED << config, getLog, stopPc, trackerMutex, backend, events,
                    secretTracker, fetchPath, orchestrator, ticks, snapshot,
                    rot, history >>

\* the process has not exited
Running == stopPc # "exited"

\* the default configuration: SECRETS_PROVIDER=vault, VAULT_MOUNT_PATH=secret,
\* ENABLE_ROTATION=true, with secrets that hold a field "value"
InitDefault ==
    /\ Init
    /\ adapter = "vault" /\ MountPath = "secret" /\ EnableRotation /\ shape = "value"

NextStop ==
    \/ Running /\ Next
    \/ StopCancel
    \/ StopCloseProvider
    \/ StopCloseDocker
    \/ Exit
    \/ Running /\ MonitorStopped

SpecStop == InitDefault /\ [][NextStop]_vars

-----------------------------------------------------------------------------
(* The fetch path alone, over every payload shape.                         *)

NextFetch ==
    \/ \E path \in DOMAIN backend, payload \in Payloads(adapter, MountPath, shape) :
          BackendWrite(path, payload)
    \/ \E req \in Requests(adapter) : GetFetch(req)
    \/ \E g \in pendingGets : GetLock(g)
    \/ \E g \in pendingGets : GetTrack(g)

SpecFetch == Constructed /\ [][NextFetch]_vars

-----------------------------------------------------------------------------
(* Sequential Gets, each from the request to its response.                 *)

InitGet == Started(StoredPaths(adapter, MountPath))

NextGet == \E req \in GetRequests(adapter) : Get(req)

SpecGet == InitGet /\ [][NextGet]_vars

-----------------------------------------------------------------------------
(* Startup: main calls NewDriver and ends the process with log.Fatalf when *)
(* it returns an error; the plugin socket is served only afterwards.       *)

\* NewDriver: CreateProvider, provider.Initialize(settings), the Docker
\* client, and `go driver.startMonitoring()`; ok is false when the making
\* of a client fails
NewDriver(ok) ==
    /\ driver = "unstarted"
    /\ IF Initialize(adapter, settings) # "" \/ ~ok
       THEN driver' = "exited" /\ monitoring' = FALSE
       ELSE driver' = "running" /\ monitoring' = StartsMonitoring(EnableRotation, adapter)
    /\ UNCHANGED << adapter, MountPath, EnableRotation, settings, shape, response,
                    lastRequest, providerCalls, stopPc, trackerMutex, backend, events, secretTracker,
                    fetchPath, orchestrator, ticks, engine, history >>

\* the requests of the runs that begin before NewDriver
BootRequests(a) ==
    { Request("db", svc, l) : svc \in {"", "app"}, l \in {NoLabels, Label(FieldKey(a), "password")} }

\* the locators at which the backend holds a secret; the operator's GCP
\* project is proj whether or not the driver is told so
BootPaths(a, mount) ==
    IF GetProviderName(a) = "gcp"
    THEN { "projects/proj/secrets/" \o n \o "/versions/latest" : n \in {"db", "app-db"} }
    ELSE { ProviderLocator(a, mount, r) : r \in BootRequests(a) }

\* the process before NewDriver, with any subset of the keys set
InitBoot ==
    /\ adapter \in Adapters
    /\ MountPath \in (IF adapter \in {"vault", "openbao"} THEN MountPaths ELSE {"secret"})
    /\ EnableRotation \in BOOLEAN
    /\ settings \in SUBSET ConfigKeys(adapter)
    /\ driver = "unstarted"
    /\ monitoring = FALSE
    /\ shape \in ShapesOf(adapter)
    /\ Fresh(BootPaths(adapter, MountPath))

\* the process has not ended
Alive == driver = "running"

NextBoot ==
    \/ \E ok \in BOOLEAN : NewDriver(ok)
    \/ \E req \in BootRequests(adapter) : Get(req)
    \/ Alive /\ Tick
    \/ Alive /\ TakeSnapshot
    \/ Alive /\ \E n \in snapshot : HasSecretChanged(n)
    \/ Alive /\ RotateIfChanged

SpecBoot == InitBoot /\ [][NextBoot]_vars

-----------------------------------------------------------------------------
(* Sequential Gets for secrets whose names the naming-constrained backends *)
(* do not accept as they are.                                              *)

\* requests with names that hold disallowed characters, hyphens in a row
\* or at the ends, a digit or an underscore in front, or nothing that is
\* allowed; with and without a service name and a name-override label
LocateRequests(a) ==
    { Request(n, svc, l) :
        n \in {"my_secret!", "9lives", "!!!", "a--b", "-x-", "_tmp", "db.v2", "api_key"},
        svc \in {"", "svc", "my.app"},
        l \in {NoLabels, Label(PathKey(a), "Team_DB!")} }

InitLocate ==
    /\ Started({ ProviderLocator(adapter, MountPath, r) : r \in LocateRequests(adapter) })
    /\ GetProviderName(adapter) \in {"azure", "gcp"}
    /\ EnableRotation
    /\ shape \in ShapesOf(adapter)

NextLocate == \E req \in LocateRequests(adapter) : Get(req)

SpecLocate == InitLocate /\ [][NextLocate]_vars

-----------------------------------------------------------------------------
(* Properties.                                                             *)

IDs(secrets) == { x.ID : x \in secrets }

\* every secret reference of every service names an existing secret object
NoDangling ==
    \A j \in DOMAIN services : \A i \in DOMAIN services[j].Secrets :
        services[j].Secrets[i].SecretID \in IDs(dockerSecrets)

\* the services the rotation in progress found referencing the secret name
Affected ==
    { rot.svcs[j].ID : j \in { k \in DOMAIN rot.svcs :
        \E i \in DOMAIN rot.svcs[k].Secrets : rot.svcs[k].Secrets[i].SecretName = rot.name } }

\* service svc has a reference to the secret object id
RefersTo(svc, id) == \E i \in DOMAIN svc.Secrets : svc.Secrets[i].SecretID = id

\* the services mounting the secret n or a version of it made by a rotation
ConsumersOf(svcs, n) ==
    { j \in DOMAIN svcs : \E i \in DOMAIN svcs[j].Secrets :
        \/ svcs[j].Secrets[i].SecretName = n
        \/ HasPrefix(svcs[j].Secrets[i].SecretName, n \o "-") }

\* service svc mounts a secret object that holds value
Mounts(svc, secrets, value) ==
    \E i \in DOMAIN svc.Secrets : \E x \in secrets :
        x.ID = svc.Secrets[i].SecretID /\ x.Data = value

\* the failures of a provider or orchestrator call, as Fails records them
CallFailed == {"refetch", "list", "create", "svclist", "update"}

\* the number of times x occurs in seq
Count(seq, x) == Cardinality({ i \in DOMAIN seq : seq[i] = x })

Consumers(tracker, n) == Range(tracker[n].ServiceNames) \ {""}

\* the step in which the Get that fetched g upserts and answers
Upserts(g) == g \in pendingGets /\ pendingGets' = pendingGets \ {g}

C8_NoEmptyConsumer ==
    \A n \in DOMAIN secretTracker : "" \notin Range(secretTracker[n].ServiceNames)

\* C9 (invariant I4): unless rotation is enabled and the provider supports
\* it, no record exists or is about to be written, the rotation loop is not
\* running and has made no call, and the orchestrator's secrets and services
\* are as they were at the start, however many fetches were served.
C9_TrackingOnlyWhenEnabled ==
    ~(EnableRotation /\ SupportsRotation(adapter)) =>
        /\ DOMAIN secretTracker = {}
        /\ pendingGets = {}
        /\ ~monitoring
        /\ monPc = "idle" /\ rot = NoRot /\ ticks = 0
        /\ dockerSecrets = InitialSecrets
        /\ services = InitialServices

\* with rotation disabled, fetches were answered with a value
C9_ServedUntracked == ~EnableRotation /\ served = MaxEvents


\* the backend holds what it held when the driver started
Untouched ==
    \A p \in DOMAIN backend : backend[p] = PayloadOf(adapter, MountPath, shape, "p1")

\* C10 (P3, fingerprint idempotence): with the backend content never
\* rewritten, a change-check of the record right after any upsert (creating
\* or merging, with or without labels and service name, for every adapter)
\* does not report a change.
C10_FingerprintIdempotence ==
    [][\A g \in pendingGets : (Upserts(g) /\ Untouched) =>
          \A r \in CheckSecretChanged(adapter, backend, secretTracker'[g.req.SecretName]) :
              ~r.changed]_vars
\* C1 (rotation happy path): a check that succeeds on a record whose
\* re-fetch yields a value with another hash reports the change, a reported
\* change starts the rotation, the re-fetch takes the value the backend
\* holds, and a rotation all of whose calls succeeded, with at least one
\* service referencing the secret, ends with a new object <name>-<suffix>
\* holding the new value, every such service referencing it, the old object
\* gone and the fingerprint the sha256 of the new value.
C1_RotationHappyPath ==
    [][/\ (monPc = "scan" /\ monPc' = "checked" /\ rot'.check.kind = "ok"
            /\ \A r \in GetSecret(adapter, MountPath, backend,
                                  RotationRequest(secretTracker[rot'.name])) :
                   r.kind = "ok" /\ Sha256Hex(r.value) # secretTracker[rot'.name].LastHash)
           => rot'.check.changed
       /\ (monPc = "checked" /\ monPc' # "checked" /\ Changed(rot.check))
           => monPc' = "refetch"
       /\ (monPc = "refetch" /\ monPc' = "list")
           => Ok(rot'.newValue) \in GetSecret(adapter, MountPath, backend,
                                             RotationRequest(secretTracker[rot.name]))
       /\ (monPc = "writeback" /\ monPc' = "returned" /\ rot.oldRemoved /\ Affected # {})
           => /\ rot'.result = "ok"
              /\ \E x \in dockerSecrets' :
                    /\ x.ID = rot.newID /\ x.Name = rot.newName
                    /\ HasPrefix(x.Name, rot.name \o "-") /\ x.Name # rot.name \o "-"
                    /\ x.Data = rot.newValue
              /\ \A j \in DOMAIN services' : services'[j].ID \in Affected =>
                    /\ \E i \in DOMAIN services'[j].Secrets :
                          /\ services'[j].Secrets[i].SecretID = rot.newID
                          /\ services'[j].Secrets[i].SecretName = rot.newName
                    /\ ~RefersTo(services'[j], rot.oldID)
              /\ rot.oldID \notin IDs(dockerSecrets')
              /\ secretTracker'[rot.name].LastHash = Sha256Hex(rot.newValue)]_vars

\* a rotation that rewired two services and removed the old object has returned
C1_RotatedTwoServices ==
    /\ monPc = "returned" /\ rot.result = "ok" /\ rot.oldRemoved
    /\ Cardinality(rot.updated) = 2

\* C2 (rotation is repeatable): a rotation of a secret that was rotated
\* before, none of whose calls fails, ends as a success with every consumer
\* service mounting an object that holds the value just fetched and with
\* the fingerprint the sha256 of that value.
C2_RotationRepeatable ==
    [][(/\ rot.name \in rotated
        /\ monPc \in {"list", "writeback"} /\ monPc' = "returned"
        /\ rot'.failedAt \notin CallFailed
        /\ monPc = "writeback" => rot.oldRemoved)
       => /\ rot'.result = "ok"
          /\ \A j \in ConsumersOf(services', rot.name) :
                Mounts(services'[j], dockerSecrets', rot.newValue)
          /\ secretTracker'[rot.name].LastHash = Sha256Hex(rot.newValue)]_vars

\* C3 (atomicity of rotation, P6): outside the rollback of a failed update
\* no step makes a secret reference of a service dangle; a service is
\* rewired only to an object that exists, and the old object is removed only
\* when no service references it.
C3_AtomicRotation ==
    [][/\ (NoDangling /\ monPc # "rollback") => NoDangling'
       /\ (monPc = "update" /\ services' # services) => rot.newID \in IDs(dockerSecrets)
       /\ (monPc = "removeold" /\ NoDangling /\ dockerSecrets' # dockerSecrets)
           => \A j \in DOMAIN services : ~RefersTo(services[j], rot.oldID)]_vars

\* in the middle of a rotation: one service rewired, another still to be
C3_HalfRewired ==
    /\ monPc = "update" /\ rot.updated # {} /\ NoDangling
    /\ \E j \in DOMAIN services : RefersTo(services[j], rot.oldID)
    /\ \E j \in DOMAIN services : RefersTo(services[j], rot.newID)

\* C4 (rollback on failure, P7): when a service update has failed and the
\* removal of the new object has succeeded, the new object is absent and
\* every service that referenced the secret references the old object.
C4_RollbackOnFailure ==
    [][(monPc = "rollback" /\ monPc' = "returned" /\ rot.failedAt = "update"
        /\ rot'.newRemoved)
       => /\ rot.newID \notin IDs(dockerSecrets')
          /\ \A j \in DOMAIN services' : services'[j].ID \in Affected =>
                /\ RefersTo(services'[j], rot.oldID)
                /\ ~RefersTo(services'[j], rot.newID)]_vars

\* C5 (retry after a failed rotation): no step of the rotation engine but
\* the write-back of a successful rotation changes the registry; once a
\* change was reported, until a rotation succeeds or the backend is
\* rewritten, every check of that record that succeeds reports the change
\* again, and a reported change starts the rotation again.
C5_RetryAfterFailure ==
    [][/\ ((monPc' # monPc \/ rot' # rot) /\ monPc # "writeback")
           => secretTracker' = secretTracker
       /\ (monPc = "scan" /\ monPc' = "checked" /\ rot'.name \in pendingRetry
            /\ rot'.check.kind = "ok")
           => rot'.check.changed
       /\ (monPc = "checked" /\ monPc' # "checked" /\ Changed(rot.check)
            /\ rot.name \in pendingRetry)
           => monPc' = "refetch"]_vars

\* the engine is between rotations, or has not yet rewired a service
Quiescent == monPc \in {"idle", "snapshot", "scan", "checked", "refetch", "list", "create", "svclist"}

\* C6 (invariant I1): whenever the engine is not in the middle of rewiring,
\* the fingerprint of every record is the sha256 of the bytes last handed to
\* a consumer of the secret (by a Get or by a service update of a rotation).
C6_FingerprintOfDelivered ==
    Quiescent => \A n \in DOMAIN secretTracker :
                    secretTracker[n].LastHash = Sha256Hex(delivered[n])

\* the requests for n whose fetch makes the record that n has: the same
\* locator and the same field
Creators(n) ==
    { req \in Requests(adapter) :
        /\ req.SecretName = n
        /\ TrackedPath(GetProviderName(adapter), req) = secretTracker[n].SecretPath
        /\ TrackedField(GetProviderName(adapter), req) = secretTracker[n].SecretField }

\* C11 (P4, change detection): when the engine checks a record while a
\* fetch that makes this record (with or without a field label) delivers a
\* value whose sha256 is not the fingerprint, the check succeeds and reports
\* a change; a check that fails reports no change, and neither that step
\* nor the step after it touches the registry or the orchestrator.
C11_ChangeDetection ==
    [][/\ (monPc = "scan" /\ monPc' = "checked") =>
            \A req \in Creators(rot'.name) :
               \A f \in GetSecret(adapter, MountPath, backend, req) :
                  (f.kind = "ok" /\ Sha256Hex(f.value) # secretTracker[rot'.name].LastHash)
                  => \A r \in CheckSecretChanged(adapter, backend, secretTracker[rot'.name]) :
                        r.kind = "ok" /\ r.changed
       /\ (monPc = "scan" /\ monPc' = "checked" /\ rot'.check.kind = "err") =>
            /\ ~rot'.check.changed
            /\ secretTracker' = secretTracker
            /\ UNCHANGED orchestrator
       /\ (monPc = "checked" /\ monPc' # "checked" /\ rot.check.kind = "err") =>
            /\ monPc' \in {"idle", "scan"}
            /\ secretTracker' = secretTracker
            /\ UNCHANGED orchestrator]_vars

\* C12 (P1, fetch determinism): the value a fetch returns is the only result
\* that a fetch with the same request can return from the same backend
\* content, for every payload shape.
C12_FetchDeterminism ==
    [][\A g \in pendingGets' \ pendingGets :
          GetSecret(adapter, MountPath, backend, g.req) = { Ok(g.value) }]_vars

\* C13 (failure isolation): no step of the rotation engine ends the process;
\* after a check that failed or reported no change, and after a rotation
\* that returned an error, the loop goes on with the rest of the tick's
\* snapshot, and returns to wait for the next tick once the snapshot is done.
C13_FailureIsolation ==
    [][/\ monPc' # "crashed"
       /\ (/\ monPc' # monPc
           /\ \/ monPc = "checked" /\ ~(rot.check.kind = "ok" /\ rot.check.changed)
              \/ monPc = "returned" /\ rot.result = "err")
           => /\ snapshot' = snapshot \ {rot.name}
              /\ monPc' = IF snapshot' = {} THEN "idle" ELSE "scan"]_vars

\* a step of the monitoring goroutine
EngineStep == monPc' # monPc \/ rot' # rot

\* the steps in which the rotation engine calls the provider
ProviderCall == monPc \in {"scan", "refetch"} /\ EngineStep

\* the steps in which the rotation engine calls the orchestrator
OrchestratorCall ==
    monPc \in {"list", "create", "svclist", "update", "rollback", "removeold"} /\ EngineStep

\* C14 (shutdown ordering): the rotation engine makes no change-check and
\* no re-fetch once Stop has closed the provider, and no orchestrator call
\* once Stop has closed the orchestrator client.
C14_ShutdownOrdering ==
    [][/\ ProviderCall => stopPc \in {"running", "cancelled"}
       /\ OrchestratorCall => stopPc \in {"running", "cancelled", "providerClosed"}]_vars

\* C15 (no I/O under the registry lock): whoever holds trackerMutex is not
\* at a provider or orchestrator call: the engine holds it only while it
\* copies the registry and while it writes back (and then changes nothing
\* but the fingerprint and the time of the record it rotated), a Get only
\* after its provider call has returned; every call of the engine is made
\* without the lock.
C15_NoIOUnderLock ==
    /\ [](/\ trackerMutex.holder = "monitor" => monPc \in {"snapshot", "writeback"}
          /\ trackerMutex.holder = "get" => trackerMutex.get \in pendingGets)
    /\ [][/\ (ProviderCall \/ OrchestratorCall) => trackerMutex.holder # "monitor"
          /\ (trackerMutex = LockedByMonitor /\ trackerMutex' # trackerMutex) =>
                /\ DOMAIN secretTracker' = DOMAIN secretTracker
                /\ \A n \in DOMAIN secretTracker :
                      secretTracker'[n] = [secretTracker[n] EXCEPT
                         !.LastHash = secretTracker'[n].LastHash,
                         !.LastUpdated = secretTracker'[n].LastUpdated]
                /\ \A n \in DOMAIN secretTracker \ {rot.name} :
                      secretTracker'[n] = secretTracker[n]]_vars

\* the engine has re-acquired the lock for the write-back of a rotation
\* while a Get waits for the lock with the value it fetched
C15_WriteBackUnderLock ==
    /\ trackerMutex = LockedByMonitor /\ monPc = "writeback"
    /\ pendingGets # {}

\* C16 (no unsynchronized read of a record): the change-check of a record,
\* which reads the record's fingerprint, is never made while the upsert of
\* a Get for the same name holds the write lock on the registry.
C16_SynchronizedReads ==
    [][(monPc = "scan" /\ monPc' # monPc)
       => ~(/\ trackerMutex.mode = "W" /\ trackerMutex.holder = "get"
            /\ trackerMutex.get.req.SecretName = rot'.name)]_vars

\* the engine is inside rotateSecret
Rotating ==
    monPc \in {"refetch", "list", "create", "svclist", "update", "rollback", "removeold",
               "lock", "writeback", "returned"}

GetStep ==
    \/ events' # events /\ backend' = backend
    \/ pendingGets' # pendingGets
    \/ trackerMutex' # trackerMutex /\ "get" \in {trackerMutex.holder, trackerMutex'.holder}

\* C18 (the fetch path leaves the orchestrator alone): no step of a Get,
\* whether it ends with a value or with an error, changes the
\* orchestrator's secrets or services; every change of them is made by a
\* step of the rotation engine at one of its create, update or remove calls.
C18_FetchLeavesOrchestrator ==
    [][/\ GetStep => UNCHANGED orchestrator
       /\ orchestrator' # orchestrator =>
             (monPc \in {"create", "update", "rollback", "removeold"} /\ EngineStep)]_vars

\* fetches were answered on both sides of a rotation that replaced the object
C18_ServedAndRotated ==
    /\ served >= 2 /\ rotated # {}
    /\ dockerSecrets # InitialSecrets /\ services # InitialServices

\* C19 (records are never lost): no step removes a record from the
\* registry or files it under another name.
C19_RecordsKept ==
    [][\A n \in DOMAIN secretTracker :
          /\ n \in DOMAIN secretTracker'
          /\ secretTracker'[n].DockerSecretName = secretTracker[n].DockerSecretName]_vars

\* after a rotation that removed the orchestrator's object db, the next
\* rotation has failed, and the record of db is still there
C19_KeptAfterRemovalAndFailure ==
    /\ "db" \in DOMAIN secretTracker
    /\ "db" \in rotated /\ \A x \in dockerSecrets : x.Name # "db"
    /\ monPc = "idle" /\ ticks = 2 /\ "db" \in pendingRetry

\* C20 (no work without change): a tick that finds the registry empty goes
\* back to waiting without a call; the engine calls the provider only for
\* a record of a non-empty snapshot, and calls the orchestrator only in the
\* rotation of a record whose check has just reported a change.
C20_NoWorkWithoutChange ==
    [][/\ (monPc = "snapshot" /\ monPc' # monPc /\ DOMAIN secretTracker = {})
           => (monPc' = "idle" /\ snapshot' = {} /\ rot' = NoRot)
       /\ ProviderCall => (snapshot # {} /\ rot'.name \in snapshot)
       /\ OrchestratorCall => (rot.check.kind = "ok" /\ rot.check.changed)
       /\ orchestrator' # orchestrator => (rot.check.kind = "ok" /\ rot.check.changed)]_vars

\* every tick has checked a record that was tracked before the first tick,
\* none reported a change, and the orchestrator is as it was
C20_CheckedUnchanged ==
    /\ ticks = MaxTicks /\ monPc = "idle"
    /\ "db" \in DOMAIN secretTracker /\ secretTracker["db"].LastUpdated = 0
    /\ dockerSecrets = InitialSecrets /\ services = InitialServices /\ nextID = 3

\* the last Get returned a value
Answered == response.Value # ""

\* C21 (do-not-reuse rule): the response of a Get that returns a value has
\* DoNotReuse true when the label <provider>_reuse of the request is "false"
\* in any letter case, and otherwise (label absent or with another value)
\* exactly when the secret name contains cert, token or dynamic.
C21_DoNotReuseRule ==
    Answered =>
        response.DoNotReuse =
            IF /\ HasLabel(lastRequest, ReuseKey(adapter))
               /\ ToLower(lastRequest.SecretLabels[ReuseKey(adapter)]) = "false"
            THEN TRUE
            ELSE \/ Contains(lastRequest.SecretName, "cert")
                 \/ Contains(lastRequest.SecretName, "token")
                 \/ Contains(lastRequest.SecretName, "dynamic")

\* C22 (request validation): a Get whose secret name is empty is answered
\* with the error "secret name is required" and no value, makes no call of
\* the provider and leaves the registry as it was.
C22_NameRequired ==
    [][(events' # events /\ lastRequest'.SecretName = "")
       => /\ response' = Response("", "secret name is required", FALSE)
          /\ providerCalls' = providerCalls
          /\ secretTracker' = secretTracker]_vars

\* a Get with an empty name was refused after another Get was tracked
C22_RefusedAfterTracked ==
    /\ lastRequest.SecretName = "" /\ response.Err = "secret name is required"
    /\ providerCalls = 1 /\ DOMAIN secretTracker # {}

\* C23 (fetch failure): a Get whose provider call can only fail is answered
\* with an error; every error response to a Get with a name carries
\* "failed to get secret: " and the message of an error the provider returns
\* for that request, has no value, follows exactly one provider call and
\* leaves the registry as it was (no record, no consumer, no fingerprint).
C23_FetchFailure ==
    [][(events' # events /\ lastRequest'.SecretName # "")
       => /\ (\A r \in GetSecret(adapter, MountPath, backend, lastRequest') : r.kind = "err")
              => response'.Err # ""
          /\ response'.Err # "" =>
                /\ \E r \in GetSecret(adapter, MountPath, backend, lastRequest')
                              \cup {Transient} :
                      r.kind = "err" /\ response'.Err = "failed to get secret: " \o r.msg
                /\ response'.Value = ""
                /\ providerCalls' = providerCalls + 1
                /\ secretTracker' = secretTracker]_vars

\* a Get for a tracked secret, from a service that is not among the
\* record's consumers, has failed
C23_FailedOnTrackedSecret ==
    /\ response.Err # "" /\ lastRequest.SecretName \in DOMAIN secretTracker
    /\ lastRequest.ServiceName = "app"
    /\ "app" \notin Range(secretTracker[lastRequest.SecretName].ServiceNames)

\* C24 (retiring the old object): an orchestrator secret is removed only by
\* the rollback (the new object) or by the removal of the old object, which
\* is asked for only when every service that referenced the secret has been
\* updated; from that removal on, whether it succeeded or failed, the
\* rotation cannot fail, and it ends as a success with the new object in
\* place, holding the new bytes, and the fingerprint their sha256.
C24_RetireOldObject ==
    [][/\ \A x \in dockerSecrets \ dockerSecrets' :
             \/ monPc = "rollback" /\ x.ID = rot.newID
             \/ monPc = "removeold" /\ x.ID = rot.oldID
       /\ (monPc = "removeold" /\ EngineStep) =>
             /\ Affected \subseteq rot.updated
             /\ \A j \in DOMAIN services : services[j].ID \in Affected =>
                   (RefersTo(services[j], rot.newID) /\ ~RefersTo(services[j], rot.oldID))
       /\ (monPc \in {"removeold", "lock", "writeback"} /\ EngineStep) =>
             (rot'.result # "err" /\ monPc' \in {"lock", "writeback", "returned"})
       /\ (monPc = "writeback" /\ monPc' = "returned") =>
             /\ rot'.result = "ok"
             /\ \E x \in dockerSecrets' : x.ID = rot.newID /\ x.Data = rot.newValue
             /\ secretTracker'[rot.name].LastHash = Sha256Hex(rot.newValue)]_vars

\* a rotation that rewired two services has returned a success although the
\* removal of the old object failed: both objects exist
C24_KeptOldObject ==
    /\ monPc = "returned" /\ rot.result = "ok" /\ ~rot.oldRemoved
    /\ Cardinality(rot.updated) = 2
    /\ {rot.oldID, rot.newID} \subseteq IDs(dockerSecrets)
    /\ secretTracker[rot.name].LastHash = Sha256Hex(rot.newValue)

\* the task template of svc has a reference to the secret name n
References(svc, n) == n \in { svc.Secrets[i].SecretName : i \in DOMAIN svc.Secrets }

\* C25 (rewiring touches exactly what it must): the engine submits an
\* update only for a service that has a reference to the rotated secret
\* name; a service changes only by such an update, which keeps the number
\* and order of its references, gives every reference to that name the new
\* object's name and identifier with the same file (path, mode, uid, gid),
\* and leaves every other reference as it was.
C25_RewiringFrame ==
    [][/\ (monPc = "update" /\ EngineStep) => References(rot.svcs[rot.i], rot.name)
       /\ Len(services') = Len(services)
       /\ \A j \in DOMAIN services : services'[j] # services[j] =>
             LET old == services[j].Secrets
                 new == services'[j].Secrets
             IN /\ monPc = "update" /\ services[j].ID = rot.svcs[rot.i].ID
                /\ References(services[j], rot.name)
                /\ services'[j].ID = services[j].ID /\ services'[j].Name = services[j].Name
                /\ Len(new) = Len(old)
                /\ \A i \in DOMAIN old :
                      IF old[i].SecretName = rot.name
                      THEN /\ new[i].SecretName = rot.newName
                           /\ new[i].SecretID = rot.newID
                           /\ new[i].File = old[i].File
                      ELSE new[i] = old[i]]_vars

\* the service web, which mounts tls and db, was rewired: its first
\* reference is as it was, its second names the new object and keeps its
\* file, and the service batch, which does not mount db, is as it was
C25_RewiredSecondReference ==
    /\ monPc = "removeold"
    /\ services[2].Secrets[1] = SecretRef("s2", "tls", "tls.pem")
    /\ services[2].Secrets[2] = SecretRef(rot.newID, rot.newName, "db_password")
    /\ rot.newID # "s1" /\ services[3] = InitialServices[3]

\* no orchestrator secret has the name of the record being rotated
Missing == \A x \in dockerSecrets : x.Name # rot.name

C27_RecordedLocator ==
    [][\A g \in pendingGets : Upserts(g) =>
          CheckLocator(adapter, secretTracker'[g.req.SecretName])
             = ProviderLocator(adapter, MountPath, g.req)]_vars

\* the results of the change-check's read of the record's value that are
\* values: what CheckSecretChanged hashes and compares with the fingerprint
Compared(secretInfo) ==
    IF CheckLocator(adapter, secretInfo) \in DOMAIN backend
    THEN { r \in CheckValue(adapter, backend[CheckLocator(adapter, secretInfo)], secretInfo) :
             r.kind = "ok" }
    ELSE {}

\* C28 (rotation re-fetch round trip): the provider maps the request that
\* rotateSecret rebuilds from a record back to the locator the change-check
\* of that record reads, for every record the driver makes; and the
\* re-fetch of a rotation, made where the change-check succeeds, returns
\* the bytes whose hash the change-check compares.
C28_RefetchRoundTrip ==
    [][/\ \A n \in DOMAIN secretTracker' :
             ProviderLocator(adapter, MountPath, RotationRequest(secretTracker'[n]))
                = CheckLocator(adapter, secretTracker'[n])
       /\ (monPc = "refetch" /\ EngineStep /\ Compared(secretTracker[rot.name]) # {}) =>
             GetSecret(adapter, MountPath, backend, RotationRequest(secretTracker[rot.name]))
                = Compared(secretTracker[rot.name])]_vars

\* the last Get had a name and reached a secret of the backend, and the
\* backend call itself did not fail
Extracted ==
    /\ events > 0 /\ lastRequest.SecretName # ""
    /\ ProviderLocator(adapter, MountPath, lastRequest) \in DOMAIN backend
    /\ response.Err # GetErrorResponse(Transient.msg).Err

\* the default fields that the object data has, by their place in the list
PresentDefaults(data) == { i \in DOMAIN defaultFields : defaultFields[i] \in DOMAIN data }

\* C29 (extractor without a field label): for every adapter, a Get without
\* a field label returns a payload that is not JSON verbatim; of a JSON
\* object it returns the first present of the fields value, password,
\* secret, data; of an object with none of them, the value of one of its
\* string fields; and of an object without a string value, an error and no
\* value.
C29_DefaultExtraction ==
    (Extracted /\ ~HasLabel(lastRequest, FieldKey(adapter))) =>
        LET data == FieldsOf(shape, "p1")
            strings == { k \in DOMAIN data : data[k].t = "string" }
        IN IF shape = "raw"
           THEN response.Err = "" /\ response.Value = "p1"
           ELSE IF PresentDefaults(data) # {}
                THEN /\ response.Err = ""
                     /\ \E i \in PresentDefaults(data) :
                           /\ \A j \in PresentDefaults(data) : i <= j
                           /\ response.Value = data[defaultFields[i]].v
                ELSE IF strings # {}
                     THEN response.Err = "" /\ response.Value \in { data[k].v : k \in strings }
                     ELSE response.Err # "" /\ response.Value = ""

\* what the extraction of field from a payload of the backend's shape is to
\* give: the value of the field, the text of a payload that is not JSON
\* when the field is "value", and otherwise nothing
FieldOf(field) ==
    LET data == FieldsOf(shape, "p1") IN
    IF shape = "raw"
    THEN IF field = "value" THEN {"p1"} ELSE {}
    ELSE IF field \in DOMAIN data THEN { data[field].v } ELSE {}

\* C30 (extractor with a field): for every adapter, a Get with a field
\* label returns the value of that field of a JSON payload, the text of a
\* payload that is not JSON if the field is "value", and otherwise an error
\* and no value; and the value that a change-check of a record reads with
\* the record's field follows the same rule.
C30_FieldExtraction ==
    /\ (Extracted /\ HasLabel(lastRequest, FieldKey(adapter))) =>
          LET want == FieldOf(lastRequest.SecretLabels[FieldKey(adapter)]) IN
          IF want # {}
          THEN response.Err = "" /\ response.Value \in want
          ELSE response.Err # "" /\ response.Value = ""
    /\ \A n \in DOMAIN secretTracker :
          CheckLocator(adapter, secretTracker[n]) \in DOMAIN backend =>
             \A r \in CheckValue(adapter, backend[CheckLocator(adapter, secretTracker[n])],
                                  secretTracker[n]) :
                IF FieldOf(secretTracker[n].SecretField) # {}
                THEN r.kind = "ok" /\ r.value \in FieldOf(secretTracker[n].SecretField)
                ELSE r.kind = "err"

\* the map whose fields the KV adapters are to read: the inner object when
\* the top-level "data" field is an object, the top-level map otherwise
Envelope(Data) ==
    IF "data" \in DOMAIN Data /\ Data["data"].t = "object" THEN Data["data"].o ELSE Data

\* the values a fetch may return from the fields of data
FetchedFrom(data, req, fieldKey) ==
    IF HasLabel(req, fieldKey)
    THEN IF req.SecretLabels[fieldKey] \in DOMAIN data
         THEN { data[req.SecretLabels[fieldKey]].v } ELSE {}
    ELSE IF PresentDefaults(data) # {}
         THEN { data[defaultFields[i]].v : i \in PresentDefaults(data) }
         ELSE StringValues(data)

\* C31 (KV envelope unwrap): for vault and openbao, a fetch and a
\* change-check read the fields of the inner object when the top-level data
\* field is an object and of the top-level map otherwise, also when a data
\* field is present that is not an object: the fetch then returns a value of
\* that map or an error, the check compares the record's field of that map
\* or fails, and no such step ends the process.
C31_EnvelopeUnwrap ==
    [][(GetProviderName(adapter) \in {"vault", "openbao"}) =>
         /\ monPc' # "crashed"
         /\ \A g \in pendingGets' \ pendingGets :
               g.value \in FetchedFrom(
                   Envelope(backend[ProviderLocator(adapter, MountPath, g.req)].obj),
                   g.req, FieldKey(adapter))
         /\ (monPc = "scan" /\ monPc' = "checked" /\ rot'.check.kind = "ok") =>
               (LET secretInfo == secretTracker[rot'.name]
                    data == Envelope(backend[CheckLocator(adapter, secretInfo)].obj)
                IN /\ secretInfo.SecretField \in DOMAIN data
                   /\ rot'.check.changed =
                         (Sha256Hex(data[secretInfo.SecretField].v) # secretInfo.LastHash))
      ]_vars

\* the configuration values without which the adapter cannot reach the
\* operator's backend
MandatoryKeys(a) ==
    CASE a = "vault" -> {"VAULT_ADDR", "VAULT_TOKEN"}
      [] a = "openbao" -> {"OPENBAO_ADDR", "OPENBAO_TOKEN"}
      [] a = "azure" -> {"AZURE_VAULT_URL"}
      [] a \in {"gcp-named", "gcp-versioned"} -> {"GCP_PROJECT_ID"}
      [] OTHER -> {}

\* C32 (init fails closed): NewDriver fails whenever a mandatory
\* configuration value of the adapter is not set; a driver runs only with
\* all of them set, so none is replaced by a default or first missed by a
\* fetch; and without a running driver no fetch is served, no provider call
\* is made and no rotation loop runs.
C32_InitFailsClosed ==
    /\ [][(driver = "unstarted" /\ driver' # driver
            /\ ~(MandatoryKeys(adapter) \subseteq settings))
          => driver' = "exited"]_vars
    /\ [](driver = "running" => MandatoryKeys(adapter) \subseteq settings)
    /\ [](driver = "unstarted" =>
            /\ events = 0 /\ served = 0 /\ providerCalls = 0
            /\ ~monitoring /\ ticks = 0 /\ monPc = "idle")
    /\ [][driver # "running" =>
            /\ UNCHANGED << events, served, providerCalls, ticks, monPc >>
            /\ monitoring' => driver' = "running"]_vars

\* the name a naming-constrained backend composes from a request
Composed(req) ==
    IF req.ServiceName # "" THEN req.ServiceName \o "-" \o req.SecretName
    ELSE req.SecretName

\* the maximal runs of letters and digits of cur \o s, cur being a run
RECURSIVE Runs(_, _)
Runs(s, cur) ==
    IF s = "" THEN (IF cur = "" THEN <<>> ELSE << cur >>)
    ELSE IF CharAt(s, 1) \in Letters \cup Digits
         THEN Runs(Tail(s), cur \o CharAt(s, 1))
         ELSE (IF cur = "" THEN <<>> ELSE << cur >>) \o Runs(Tail(s), "")

\* the words joined by single hyphens
RECURSIVE Joined(_)
Joined(words) ==
    IF Len(words) = 0 THEN ""
    ELSE IF Len(words) = 1 THEN words[1]
    ELSE words[1] \o "-" \o Joined(Tail(words))

\* a name a Key Vault accepts, without hyphens in a row or at the ends
KeyVaultName(l) ==
    /\ l # ""
    /\ \A i \in 1..Len(l) : CharAt(l, i) \in Letters \cup Digits \cup {"-"}
    /\ ~Contains(l, "--")
    /\ CharAt(l, 1) # "-" /\ CharAt(l, Len(l)) # "-"

\* l is what the Key-Vault-style rule makes of the request
KeyVaultSanitized(req, l) ==
    IF HasLabel(req, "azure_secret_name") THEN l = req.SecretLabels["azure_secret_name"]
    ELSE /\ KeyVaultName(l)
         /\ Joined(Runs(Composed(req), "")) # "" => l = Joined(Runs(Composed(req), ""))

\* a Get creates the record of its secret
Creates == lastRequest'.SecretName \in DOMAIN secretTracker' \ DOMAIN secretTracker

\* C33 (Key-Vault-style sanitization): for the Azure adapter, the locator
\* a Get reads and the locator written into a new record are the name
\* override label as it is when the request has one; otherwise they hold
\* only letters, digits and hyphens, no two hyphens in a row and none at the
\* ends, and are the composed name with every run of other characters and
\* hyphens made one hyphen and the ends trimmed, unless nothing is left.
C33_KeyVaultSanitization ==
    [][(adapter = "azure" /\ providerCalls' # providerCalls) =>
          /\ KeyVaultSanitized(lastRequest', ProviderLocator(adapter, MountPath, lastRequest'))
          /\ Creates =>
                KeyVaultSanitized(lastRequest',
                                  secretTracker'[lastRequest'.SecretName].SecretPath)]_vars

\* s with every rune outside A-Z, a-z, 0-9, underscore and hyphen replaced
\* by an underscore
RECURSIVE Underscored(_)
Underscored(s) ==
    IF s = "" THEN ""
    ELSE (IF CharAt(s, 1) \in Letters \cup Digits \cup {"_", "-"} THEN CharAt(s, 1) ELSE "_")
         \o Underscored(Tail(s))

\* l is what the Resource-ID-style rule makes of the composed name
ResourceIDSanitized(name, l) ==
    /\ CharAt(l, 1) \in Letters
    /\ \A i \in 1..Len(l) : CharAt(l, i) \in Letters \cup Digits \cup {"_", "-"}
    /\ IF CharAt(name, 1) \in Letters
       THEN l = Underscored(name)
       ELSE Len(l) = Len(name) + 1 /\ Tail(l) = Underscored(name)

\* C34 (Resource-ID-style sanitization): for the GCP adapters, the locator
\* written into a new record for a request without a name override starts
\* with a letter and holds only letters, digits, underscores and hyphens;
\* it is the composed name with every other rune replaced by an
\* underscore, behind one more letter in front when the composed name does
\* not start with a letter.
C34_ResourceIDSanitization ==
    [][(GetProviderName(adapter) = "gcp" /\ Creates
        /\ ~HasLabel(lastRequest', "gcp_secret_name")) =>
          ResourceIDSanitized(Composed(lastRequest'),
                              secretTracker'[lastRequest'.SecretName].SecretPath)]_vars

\* C35 (cancellation of the rotation loop): the loop returns only after
\* Stop has cancelled its context and only from its wait between two
\* scans, and no tick starts a scan once the context is cancelled.
C35_Cancellation ==
    [][/\ (monPc' = "stopped" /\ monPc # "stopped") => (stopPc # "running" /\ monPc = "idle")
       /\ ticks' # ticks => stopPc = "running"]_vars

\* the results of the re-fetch a rotation of record `name` would make now
Refetch(name) ==
    GetSecret(adapter, MountPath, backend, RotationRequest(secretTracker[name]))

\* C36 (quiescence): a tick reports a record changed only when a rotation
\* can end the report: the re-fetch of the record can succeed, and the value
\* it obtains does not already have the record's fingerprint.  Otherwise
\* neither a failed nor a successful rotation alters the record or the
\* backend, and the same report comes back on every later tick.
C36_Quiescence ==
    [][(monPc = "scan" /\ monPc' = "checked" /\ Changed(rot'.check)) =>
          /\ \E r \in Refetch(rot'.name) : r.kind = "ok"
          /\ \A r \in Refetch(rot'.name) :
                r.kind = "ok" => Sha256Hex(r.value) # secretTracker[rot'.name].LastHash]_vars

\* a change-check of record `secretInfo` made now would report a change
Pending(secretInfo) ==
    \E r \in CheckSecretChanged(adapter, backend, secretInfo) : Changed(r)

\* C37 (a fetch does not hide a pending change): when a Get upserts into a
\* record whose backend value has changed, so that a change-check of the
\* record would report the change, a change-check of the record after the
\* upsert still reports it; no step but a change-check and the rotation it
\* starts rewires a workload, so a change that no check reports any more
\* never reaches the workloads that consumed the old value.
C37_FetchKeepsPendingChange ==
    [][\A g \in pendingGets :
          (/\ Upserts(g)
           /\ g.req.SecretName \in DOMAIN secretTracker
           /\ Pending(secretTracker[g.req.SecretName]))
          => Pending(secretTracker'[g.req.SecretName])]_vars

\* C38 (no dangling reference in any state): in every reachable state,
\* during and after rotations that fail at any step included, every secret
\* reference of every service names an identifier that is present in the
\* orchestrator's secret list.
C38_NoDanglingEver ==
    \A j \in DOMAIN services : \A ref \in Range(services[j].Secrets) :
        \E x \in dockerSecrets : x.ID = ref.SecretID

\* what the first tracked fetch for a name writes and no later step may alter
Identity(secretInfo) ==
    << secretInfo.DockerSecretName, secretInfo.Provider, secretInfo.SecretPath,
       secretInfo.SecretField >>

\* C39 (upsert frame): an upsert into an existing record changes nothing of
\* the registry but the consumers, the fingerprint and the time of that
\* record, whatever service name and labels its fetch carries; and no step
\* at all, of a fetch or of a rotation, removes a record or alters the
\* orchestrator-secret name, the provider, the locator or the field that the
\* first tracked fetch for its name wrote.
C39_UpsertFrame ==
    [][/\ \A g \in pendingGets :
            (Upserts(g) /\ g.req.SecretName \in DOMAIN secretTracker) =>
               secretTracker' =
                  [secretTracker EXCEPT ![g.req.SecretName] =
                     [@ EXCEPT !.ServiceNames = secretTracker'[g.req.SecretName].ServiceNames,
                               !.LastHash = secretTracker'[g.req.SecretName].LastHash,
                               !.LastUpdated = secretTracker'[g.req.SecretName].LastUpdated]]
       /\ \A n \in DOMAIN secretTracker :
            /\ n \in DOMAIN secretTracker'
            /\ Identity(secretTracker'[n]) = Identity(secretTracker[n])]_vars

\* a second fetch for db, from service app, was merged into the record that
\* the first fetch, without a service name, had created under its own locator
C39_MergedOtherFetch ==
    /\ "db" \in DOMAIN secretTracker
    /\ secretTracker["db"].ServiceNames = << "", "app" >>
    /\ TrackedPath(GetProviderName(adapter), Request("db", "app", NoLabels))
          # secretTracker["db"].SecretPath
    /\ served = 2
====
